---- MODULE Spec2Model ----
(***************************************************************************)
(* V4A patch applier of local-coding-buddy (src/orchestrator/v4a_patch.py) *)
(* as a state machine over a small filesystem.                             *)
(*                                                                         *)
(* A text is a sequence of characters (one-character strings); a line is a *)
(* text without a newline.  A path is the sequence of its components, so   *)
(* <<"f">> is the bare name "f" and <<"d", "g">> is "d/g".                 *)
(***************************************************************************)
EXTENDS Integers, Sequences, FiniteSets, TLC

VARIABLES
    files,      \* the regular files: path -> text, for the paths that exist
    dirs,       \* the directories that exist (the working directory always does)
    patch_text, \* the patch handed to apply_patch
    dry_run,    \* apply_patch's dry_run argument of the running/last call
    pc,         \* "idle" | "loop" (inside the for loop) | "returned"
    hunks,      \* the parsed hunks of the running call
    index,      \* 1-based position of the for loop in hunks
    results,    \* the results dictionary of the running/last call
    entry,      \* the filesystem when the running/last call was entered
    pre,        \* the filesystem before the latest iteration of the for loop
    prev,       \* the finished calls before this one: <<[dry_run, results, entry]>>
    document,        \* the text handed to V4APatchParser.parse and validate_patch
    parse_result,    \* <<>> before parse is called, then <<what it returned or raised>>
    validate_result, \* <<>> before validate_patch is called, then <<its tuple>>
    stage,             \* where run_implementer is: "loop" | "dry_run" | "apply" |
                       \* "retry" | "returned" | "raised" ("idle": not running)
    attempt,           \* the for loop's variable
    max_retries,       \* the configured maximum number of attempts
    task,              \* the task run_implementer was given
    implementer_input, \* the input the next prompt is built from
    prompt,            \* the prompt of the latest agent call
    patch_output,      \* the patch cut out of the agent's latest answer
    dry_run_result,    \* <<>> while unbound, then <<the latest dry run's result>>
    run_result,        \* what run_implementer returned or raised
    log,               \* the agent calls, dry runs and real applies so far
    fs_before_run,     \* the filesystem when run_implementer was entered
    call_pc,     \* per concurrent _apply_update call: "idle" | "start" | "read" |
                 \* "opened" | "returned"
    call_hunk,   \* per call: its Update hunk
    call_lines,  \* per call: the lines it read from the file
    call_result, \* per call: <<>> while running, then <<its ApplyResult>>
    schedule,    \* the steps the calls have taken so far: <<call, step>>
    race_entry,  \* the file's text when the calls were started
    extractor,        \* the ContextExtractor: its strategy and small_file_threshold
    target_path,      \* extract_for_task's argument file_path, a text
    task_description, \* extract_for_task's argument task_description, a text
    parsed,           \* what ast.parse or the tree-sitter parser makes of the file
    installed,        \* the tree-sitter packages that can be imported
    file_context,     \* <<>> before extract_for_task is called, then <<its result>>
    current_state,    \* WorkflowState.current_state
    current_task,     \* WorkflowState.current_task: <<>> for None, else <<the id>>
    retry_count,      \* WorkflowState.retry_count
    auto_commit,      \* StateMachine.auto_commit
    task_graph,       \* <<>> until _plan returned, then <<the planned task ids>>
    task_index,       \* 1-based position of execute's for loop in the tasks
    execute_pc,       \* where execute is: "start" | "plan" | "no_tasks" | "author" |
                      \* "implement" | "validate" | "rollback" | "except" |
                      \* "returned" | "raised" ("idle": not called)
    execution_result, \* <<>> while running, then <<the ExecutionResult>>
    saved_state,      \* the state file: <<>> or <<the state last written>>
    worktree,         \* the tasks whose patch is in the project's working tree
    journal           \* the states entered and what was done to the project so far

\* the state of the applier, of the filesystem and of the parser
applier_vars == <<patch_text, dry_run, pc, hunks, index, results, entry, pre, prev>>
fs_vars == <<files, dirs>>
parser_vars == <<document, parse_result, validate_result>>
run_vars == <<stage, attempt, max_retries, task, implementer_input, prompt,
              patch_output, dry_run_result, run_result, log, fs_before_run>>

race_vars == <<call_pc, call_hunk, call_lines, call_result, schedule, race_entry>>

extractor_vars == <<extractor, target_path, task_description, parsed, installed,
                    file_context>>

execute_vars == <<current_state, current_task, retry_count, auto_commit, task_graph,
                  task_index, execute_pc, execution_result, saved_state, worktree,
                  journal>>

vars == <<fs_vars, applier_vars, parser_vars, run_vars, race_vars, extractor_vars,
          execute_vars>>

----------------------------------------------------------------------------
(* Characters and text *)

NL == "\n"
SP == " "
Whitespace == {" ", "\t"}
WordChars == {"c", "A", "B", "r", "n", "x"}

IsSpace(ch) == ch \in Whitespace
IsWord(ch) == ch \in WordChars

Min(S) == CHOOSE x \in S : \A y \in S : x <= y

\* s[i:] with a 1-based i
Drop(s, i) == SubSeq(s, i, Len(s))

\* lines[i:i+n] with Python's 0-based i, clipped to the sequence like a slice
Slice(s, i, n) == SubSeq(s, i + 1, IF i + n > Len(s) THEN Len(s) ELSE i + n)

\* sep.join(parts)
RECURSIVE JoinWith(_, _)
JoinWith(sep, parts) ==
    IF parts = <<>> THEN <<>>
    ELSE IF Len(parts) = 1 THEN parts[1]
    ELSE parts[1] \o sep \o JoinWith(sep, Tail(parts))

\* '\n'.join(lines)
JoinLines(lines) == JoinWith(<<NL>>, lines)

\* content.split('\n'): never empty, '' splits to [''].  (CHOOSE over a
\* one-element set names a value that is computed once, here and below.)
RECURSIVE SplitLines(_)
SplitLines(content) ==
    LET nls == {i \in 1..Len(content) : content[i] = NL}
    IN  IF nls = {} THEN <<content>>
        ELSE CHOOSE r \in {<<SubSeq(content, 1, first - 1)>>
                              \o SplitLines(Drop(content, first + 1)) :
                          first \in {Min(nls)}} : TRUE

\* length of the run of characters satisfying the class at the start of s[i:]
RunLen(s, i, class) ==
    LET stops == {j \in i..Len(s) : s[j] \notin class}
    IN  IF stops = {} THEN Len(s) - i + 1 ELSE Min(stops) - i

\* line.split(): the maximal runs of non-whitespace characters
RECURSIVE SplitWords(_)
SplitWords(line) ==
    IF line = <<>> THEN <<>>
    ELSE IF IsSpace(line[1]) THEN SplitWords(Tail(line))
    ELSE LET ends == {j \in 1..Len(line) : IsSpace(line[j])}
             k == IF ends = {} THEN Len(line) + 1 ELSE Min(ends)
         IN  <<SubSeq(line, 1, k - 1)>> \o SplitWords(Drop(line, k))

\* ' '.join(line.split())
normalize(line) == JoinWith(<<SP>>, SplitWords(line))

\* s startswith w at 1-based position i
StartsWithAt(s, i, w) ==
    /\ i + Len(w) - 1 <= Len(s)
    /\ SubSeq(s, i, i + Len(w) - 1) = w

\* RunLen that tolerates a start past the end of s
Run(s, i, class) == IF i > Len(s) THEN 0 ELSE RunLen(s, i, class)

----------------------------------------------------------------------------
(* Matching strategies of V4APatchApplier *)

window_size == 100

NotFound == [found |-> FALSE, start_line |-> 0, end_line |-> 0, strategy |-> "none"]

Found(i, n, s) == [found |-> TRUE, start_line |-> i, end_line |-> i + n, strategy |-> s]

\* [f(l) for l in lines]
normalized(lines) == [k \in 1..Len(lines) |-> normalize(lines[k])]

\* the i of range(len(lines) - len(search) + 1) with lines[i:i + len(search)] == search
Hits(lines, search) ==
    {i \in 0..(Len(lines) - Len(search)) : Slice(lines, i, Len(search)) = search}

find_exact_match(lines, hunk) ==
    LET hits == Hits(lines, hunk.removed_lines)
    IN  IF hunk.removed_lines = <<>> THEN NotFound
        ELSE IF hits = {} THEN NotFound
        ELSE Found(Min(hits), Len(hunk.removed_lines), "exact")

\* a fuzzy scan that keeps the last matching window instead of the first
find_fuzzy_match_last(lines, hunk) ==
    LET hits == {i \in 0..(Len(lines) - Len(hunk.removed_lines)) :
                    normalized(Slice(lines, i, Len(hunk.removed_lines)))
                        = normalized(hunk.removed_lines)}
    IN  IF hunk.removed_lines = <<>> THEN NotFound
        ELSE IF hits = {} THEN NotFound
        ELSE Found(CHOOSE i \in hits : \A j \in hits : j <= i,
                   Len(hunk.removed_lines), "fuzzy")

find_fuzzy_match(lines, hunk) ==
    LET hits == {i \in 0..(Len(lines) - Len(hunk.removed_lines)) :
                    normalized(Slice(lines, i, Len(hunk.removed_lines)))
                        = normalized(hunk.removed_lines)}
    IN  IF hunk.removed_lines = <<>> THEN NotFound
        ELSE IF hits = {} THEN NotFound
        ELSE Found(Min(hits), Len(hunk.removed_lines), "fuzzy")

\* re.search(r'@@\s*(\w+)\s+(\w+)', header): <<group 1, group 2>> of the leftmost
\* match, <<>> when there is none.  Every quantifier is followed by a character
\* of another class, so each run is matched whole.
HeaderEntity(header) ==
    LET TypeAt(i) == i + 2 + Run(header, i + 2, Whitespace)
        GapAt(i) == TypeAt(i) + Run(header, TypeAt(i), WordChars)
        NameAt(i) == GapAt(i) + Run(header, GapAt(i), Whitespace)
        EndAt(i) == NameAt(i) + Run(header, NameAt(i), WordChars)
        starts == {i \in 1..Len(header) :
                      /\ StartsWithAt(header, i, <<"@", "@">>)
                      /\ GapAt(i) > TypeAt(i)
                      /\ NameAt(i) > GapAt(i)
                      /\ EndAt(i) > NameAt(i)}
        i0 == Min(starts)
    IN  IF starts = {} THEN <<>>
        ELSE << SubSeq(header, TypeAt(i0), GapAt(i0) - 1),
                SubSeq(header, NameAt(i0), EndAt(i0) - 1) >>

\* re.match(rf'^\s*{entity_type}\s+{entity_name}', line)
EntityLineMatches(line, entity_type, entity_name) ==
    LET a == 1 + Run(line, 1, Whitespace)
        b == a + Len(entity_type)
        w == Run(line, b, Whitespace)
    IN  /\ StartsWithAt(line, a, entity_type)
        /\ w >= 1
        /\ StartsWithAt(line, b + w, entity_name)

\* a header tier that takes the lines under the anchor without comparing them
find_with_context_header_unverified(lines, hunk) ==
    LET ent == HeaderEntity(hunk.context_header)
        anchors == {i \in 0..(Len(lines) - 1) :
                       EntityLineMatches(lines[i + 1], ent[1], ent[2])}
    IN  IF hunk.context_header = <<>> THEN NotFound
        ELSE IF ent = <<>> THEN NotFound
        ELSE IF anchors = {} THEN NotFound
        ELSE Found(Min(anchors), Len(hunk.removed_lines), "context_header")

find_with_context_header(lines, hunk) ==
    LET ent == HeaderEntity(hunk.context_header)
        anchors == {i \in 0..(Len(lines) - 1) :
                       EntityLineMatches(lines[i + 1], ent[1], ent[2])}
        start_idx == Min(anchors)
        window_lines == Slice(lines, start_idx, window_size)
        hits == Hits(window_lines, hunk.removed_lines)
    IN  IF hunk.context_header = <<>> THEN NotFound
        ELSE IF ent = <<>> THEN NotFound
        ELSE IF anchors = {} THEN NotFound
        ELSE IF hits = {} THEN NotFound
        ELSE Found(start_idx + Min(hits), Len(hunk.removed_lines), "context_header")

\* set(re.findall(r'\w+', line)): the maximal runs of word characters
WordRuns(line) ==
    {SubSeq(line, i, i + Run(line, i, WordChars) - 1) :
        i \in {j \in 1..Len(line) :
                  IsWord(line[j]) /\ (j = 1 \/ ~IsWord(line[j - 1]))}}

KeyTokens(removed_lines) ==
    UNION {{t \in WordRuns(removed_lines[k]) : Len(t) > 3} :
              k \in 1..Len(removed_lines)}

\* the entries whose overlap count is o, o - 1, ..., 0 in that order, each group
\* in file order: the stable sort by overlap_ratio, reverse=True
RECURSIVE ByOverlap(_, _)
ByOverlap(entries, o) ==
    IF o < 0 THEN <<>>
    ELSE SelectSeq(entries, LAMBDA e : e.overlap_ratio[1] = o)
             \o ByOverlap(entries, o - 1)

\* suggestions without the 40% threshold: every line sharing a token qualifies
suggest_any_overlap(lines, hunk) ==
    LET key_tokens == KeyTokens(hunk.removed_lines)
        Overlap(i) == key_tokens \cap WordRuns(lines[i + 1])
        Entry(i) ==
            [line |-> i + 1,
             context |-> JoinLines(SubSeq(lines,
                            (IF i - 2 < 0 THEN 0 ELSE i - 2) + 1,
                            IF i + 3 > Len(lines) THEN Len(lines) ELSE i + 3)),
             overlap_tokens |-> Overlap(i),
             overlap_ratio |-> <<Cardinality(Overlap(i)), Cardinality(key_tokens)>>]
        all == [k \in 1..Len(lines) |-> Entry(k - 1)]
        suggestions == SelectSeq(all, LAMBDA e : e.overlap_ratio[1] >= 1)
        sorted == ByOverlap(suggestions, Cardinality(key_tokens))
    IN  IF hunk.removed_lines = <<>> THEN <<>>
        ELSE IF key_tokens = {} THEN <<>>
        ELSE SubSeq(sorted, 1, IF Len(sorted) > 3 THEN 3 ELSE Len(sorted))

\* overlap >= len(key_tokens) * 0.4, compared in integers
suggest_similar_code(lines, hunk) ==
    LET key_tokens == KeyTokens(hunk.removed_lines)
        Overlap(i) == key_tokens \cap WordRuns(lines[i + 1])
        Entry(i) ==
            [line |-> i + 1,
             context |-> JoinLines(SubSeq(lines,
                            (IF i - 2 < 0 THEN 0 ELSE i - 2) + 1,
                            IF i + 3 > Len(lines) THEN Len(lines) ELSE i + 3)),
             overlap_tokens |-> Overlap(i),
             overlap_ratio |-> <<Cardinality(Overlap(i)), Cardinality(key_tokens)>>]
        all == [k \in 1..Len(lines) |-> Entry(k - 1)]
        suggestions == SelectSeq(all, LAMBDA e :
                           10 * e.overlap_ratio[1] >= 4 * e.overlap_ratio[2])
        sorted == ByOverlap(suggestions, Cardinality(key_tokens))
    IN  IF hunk.removed_lines = <<>> THEN <<>>
        ELSE IF key_tokens = {} THEN <<>>
        ELSE SubSeq(sorted, 1, IF Len(sorted) > 3 THEN 3 ELSE Len(sorted))

----------------------------------------------------------------------------
(* Hunks, results and the filesystem *)

NoPath == <<>>
NoHeader == <<>>
NoRange == <<>>

V4AHunk(action, file_path, new_path, context_header, removed_lines, added_lines) ==
    [action |-> action, file_path |-> file_path, new_path |-> new_path,
     context_header |-> context_header, context_before |-> <<>>,
     removed_lines |-> removed_lines, added_lines |-> added_lines,
     context_after |-> <<>>]

ApplyResult(success, action, file_path, line_range, match_strategy, error, suggestions) ==
    [success |-> success, action |-> action, file_path |-> file_path,
     line_range |-> line_range, match_strategy |-> match_strategy,
     error |-> error, suggestions |-> suggestions]

\* os.path.exists for a file path of the model
exists(fs, path) == path \in DOMAIN fs.files

\* os.path.dirname
dirname(path) == SubSeq(path, 1, Len(path) - 1)

\* os.makedirs(d, exist_ok=True) for d # '': d and its missing ancestors
makedirs(fs, d) ==
    [fs EXCEPT !.dirs = @ \cup {SubSeq(d, 1, k) : k \in 1..Len(d)}]

\* open(path, 'w').write(text)
write(fs, path, text) ==
    [fs EXCEPT !.files = [q \in DOMAIN @ \cup {path} |->
                             IF q = path THEN text ELSE @[q]]]

\* os.remove(path)
remove(fs, path) ==
    [fs EXCEPT !.files = [q \in DOMAIN @ \ {path} |-> @[q]]]

\* os.rename(old, new), new absent
rename(fs, old, new) == remove(write(fs, new, fs.files[old]), old)

\* What one _apply_* call does: it returns result and leaves the filesystem fs,
\* or raises exc and leaves fs.
Returns(result, fs) == [raised |-> FALSE, exc |-> "", result |-> result, fs |-> fs]

Raises(exc, fs) ==
    [raised |-> TRUE, exc |-> exc,
     result |-> ApplyResult(FALSE, "", NoPath, NoRange, "none", "", <<>>), fs |-> fs]

ENOENT == "[Errno 2] No such file or directory: ''"

\* an add without the existence test: it overwrites
apply_add_overwrite(fs, hunk, dry) ==
    IF dry
    THEN Returns(ApplyResult(TRUE, "add", hunk.file_path, NoRange, "new_file",
                             "none", <<>>), fs)
    ELSE IF dirname(hunk.file_path) = <<>>
    THEN Raises(ENOENT, fs)
    ELSE Returns(ApplyResult(TRUE, "add", hunk.file_path, NoRange, "new_file",
                             "none", <<>>),
                 write(makedirs(fs, dirname(hunk.file_path)), hunk.file_path,
                       JoinLines(hunk.added_lines)))

apply_add(fs, hunk, dry) ==
    IF exists(fs, hunk.file_path)
    THEN Returns(ApplyResult(FALSE, "add", hunk.file_path, NoRange, "none",
                             "File already exists", <<>>), fs)
    ELSE IF dry
    THEN Returns(ApplyResult(TRUE, "add", hunk.file_path, NoRange, "new_file",
                             "none", <<>>), fs)
    ELSE IF dirname(hunk.file_path) = <<>>
    THEN Raises(ENOENT, fs)
    ELSE Returns(ApplyResult(TRUE, "add", hunk.file_path, NoRange, "new_file",
                             "none", <<>>),
                 write(makedirs(fs, dirname(hunk.file_path)), hunk.file_path,
                       JoinLines(hunk.added_lines)))

\* a delete that reports success for a path that is not there
apply_delete_missing_ok(fs, hunk, dry) ==
    IF ~exists(fs, hunk.file_path) \/ dry
    THEN Returns(ApplyResult(TRUE, "delete", hunk.file_path, NoRange, "file_delete",
                             "none", <<>>), fs)
    ELSE Returns(ApplyResult(TRUE, "delete", hunk.file_path, NoRange, "file_delete",
                             "none", <<>>), remove(fs, hunk.file_path))

\* a delete that forgets the dry_run test
apply_delete_always(fs, hunk, dry) ==
    IF ~exists(fs, hunk.file_path)
    THEN Returns(ApplyResult(FALSE, "delete", hunk.file_path, NoRange, "none",
                             "File does not exist", <<>>), fs)
    ELSE Returns(ApplyResult(TRUE, "delete", hunk.file_path, NoRange, "file_delete",
                             "none", <<>>),
                 remove(fs, hunk.file_path))

apply_delete(fs, hunk, dry) ==
    IF ~exists(fs, hunk.file_path)
    THEN Returns(ApplyResult(FALSE, "delete", hunk.file_path, NoRange, "none",
                             "File does not exist", <<>>), fs)
    ELSE Returns(ApplyResult(TRUE, "delete", hunk.file_path, NoRange, "file_delete",
                             "none", <<>>),
                 IF dry THEN fs ELSE remove(fs, hunk.file_path))

apply_move(fs, hunk, dry) ==
    IF ~exists(fs, hunk.file_path)
    THEN Returns(ApplyResult(FALSE, "move", hunk.file_path, NoRange, "none",
                             "Source file does not exist", <<>>), fs)
    ELSE IF exists(fs, hunk.new_path)
    THEN Returns(ApplyResult(FALSE, "move", hunk.file_path, NoRange, "none",
                             "Destination already exists", <<>>), fs)
    ELSE IF dry
    THEN Returns(ApplyResult(TRUE, "move", hunk.file_path, NoRange, "file_move",
                             "none", <<>>), fs)
    ELSE IF dirname(hunk.new_path) = <<>>
    THEN Raises(ENOENT, fs)
    ELSE Returns(ApplyResult(TRUE, "move", hunk.file_path, NoRange, "file_move",
                             "none", <<>>),
                 rename(makedirs(fs, dirname(hunk.new_path)),
                        hunk.file_path, hunk.new_path))

\* a cascade that tries the fuzzy scan before the exact one
match_result_fuzzy_first(lines, hunk) ==
    LET exact == find_exact_match(lines, hunk)
        fuzzy == find_fuzzy_match(lines, hunk)
    IN  IF fuzzy.found THEN fuzzy
        ELSE IF exact.found THEN exact
        ELSE IF hunk.context_header # NoHeader
        THEN find_with_context_header(lines, hunk)
        ELSE fuzzy

\* the ordered matching cascade of _apply_update
match_result(lines, hunk) ==
    LET exact == find_exact_match(lines, hunk)
        fuzzy == find_fuzzy_match(lines, hunk)
    IN  IF exact.found THEN exact
        ELSE IF fuzzy.found THEN fuzzy
        ELSE IF hunk.context_header # NoHeader
        THEN find_with_context_header(lines, hunk)
        ELSE fuzzy

\* a splice that resumes one line late
new_lines_skip(lines, hunk, m) ==
    SubSeq(lines, 1, m.start_line) \o hunk.added_lines
        \o SubSeq(lines, m.end_line + 2, Len(lines))

\* lines[:start] + added_lines + lines[end:]
new_lines(lines, hunk, m) ==
    SubSeq(lines, 1, m.start_line) \o hunk.added_lines
        \o SubSeq(lines, m.end_line + 1, Len(lines))

apply_update(fs, hunk, dry) ==
    IF ~exists(fs, hunk.file_path)
    THEN Returns(ApplyResult(FALSE, "update", hunk.file_path, NoRange, "none",
                             "File does not exist",
                             <<[suggestion |-> "Use Add File instead"]>>), fs)
    ELSE LET lines == SplitLines(fs.files[hunk.file_path])
             m == match_result(lines, hunk)
         IN  IF ~m.found
             THEN Returns(ApplyResult(FALSE, "update", hunk.file_path, NoRange,
                                      "none", "Could not locate code to replace",
                                      suggest_similar_code(lines, hunk)), fs)
             ELSE Returns(ApplyResult(TRUE, "update", hunk.file_path,
                                      <<m.start_line, m.end_line>>, m.strategy,
                                      "none", <<>>),
                          IF dry THEN fs
                          ELSE write(fs, hunk.file_path,
                                     JoinLines(new_lines(lines, hunk, m))))

----------------------------------------------------------------------------
(* apply_patch *)

\* a parse that does not ask for the End marker
parse_unterminated(text) ==
    IF ~text.begin
    THEN [raised |-> TRUE, hunks |-> <<>>,
          exc |-> "Invalid V4A patch: missing '*** Begin Patch' marker"]
    ELSE [raised |-> FALSE, hunks |-> text.body, exc |-> ""]

\* V4APatchParser.parse seen from apply_patch: the markers are checked, then the
\* body's hunks are returned in document order.
parse(text) ==
    IF ~text.begin
    THEN [raised |-> TRUE, hunks |-> <<>>,
          exc |-> "Invalid V4A patch: missing '*** Begin Patch' marker"]
    ELSE IF ~text.end
    THEN [raised |-> TRUE, hunks |-> <<>>,
          exc |-> "Invalid V4A patch: missing '*** End Patch' marker"]
    ELSE [raised |-> FALSE, hunks |-> text.body, exc |-> ""]

NewResults == [success |-> TRUE, operations |-> <<>>, errors |-> <<>>]

\* the body of the try/except around one hunk: what it does to results
record(res, hunk, out) ==
    IF out.raised
    THEN [success |-> FALSE,
          errors |-> Append(res.errors,
                        <<"Error applying", hunk.action, hunk.file_path, out.exc>>),
          operations |-> Append(res.operations,
                            ApplyResult(FALSE, hunk.action, hunk.file_path, NoRange,
                                        "none", out.exc, <<>>))]
    ELSE [success |-> res.success /\ out.result.success,
          errors |-> res.errors,
          operations |-> Append(res.operations, out.result)]

\* a loop that stops at the first hunk that fails
after_hunk_fail_fast(i, n, out) ==
    IF out.raised THEN "returned"
    ELSE IF ~out.result.success THEN "returned"
    ELSE IF i >= n THEN "returned" ELSE "loop"

\* where the for loop goes after hunk number i of n
after_hunk(i, n, out) == IF i >= n THEN "returned" ELSE "loop"

FS == [files |-> files, dirs |-> dirs]

\* apply_patch(patch_text, dry) is called: results is set up and the text parsed.
\* A real apply may follow one dry run of the same text, as in the implementer
\* workflow, and a real apply may be followed by one later real apply.
ApplyPatch(dry) ==
    /\ IF pc = "idle" THEN TRUE
       ELSE /\ pc = "returned" /\ ~dry
            /\ IF dry_run THEN prev = <<>>
               ELSE \A k \in 1..Len(prev) : prev[k].dry_run
    /\ LET p == parse(patch_text)
       IN  /\ hunks' = p.hunks
           /\ results' = IF p.raised
                         THEN [success |-> FALSE, operations |-> <<>>,
                               errors |-> <<<<"Parse error", p.exc>>>>]
                         ELSE NewResults
           /\ pc' = IF p.raised THEN "returned"
                    ELSE IF p.hunks = <<>> THEN "returned" ELSE "loop"
    /\ dry_run' = dry
    /\ index' = 1
    /\ entry' = FS
    /\ pre' = FS
    /\ prev' = IF pc = "idle" THEN prev
               ELSE Append(prev, [dry_run |-> dry_run, results |-> results,
                                  entry |-> entry])
    /\ UNCHANGED <<files, dirs, patch_text>>
    /\ UNCHANGED <<parser_vars, run_vars, race_vars, extractor_vars, execute_vars>>

\* the rest of one iteration of the for loop, where out is what the hunk's
\* _apply_* call does
Iterate(out) ==
    /\ files' = out.fs.files
    /\ dirs' = out.fs.dirs
    /\ results' = record(results, hunks[index], out)
    /\ pc' = after_hunk(index, Len(hunks), out)
    /\ index' = index + 1
    /\ pre' = FS
    /\ UNCHANGED <<patch_text, dry_run, hunks, entry, prev>>
    /\ UNCHANGED <<parser_vars, run_vars, race_vars, extractor_vars, execute_vars>>

ApplyAdd ==
    /\ pc = "loop"
    /\ hunks[index].action = "add"
    /\ Iterate(apply_add(FS, hunks[index], dry_run))

ApplyUpdate ==
    /\ pc = "loop"
    /\ hunks[index].action = "update"
    /\ Iterate(apply_update(FS, hunks[index], dry_run))

ApplyDelete ==
    /\ pc = "loop"
    /\ hunks[index].action = "delete"
    /\ Iterate(apply_delete(FS, hunks[index], dry_run))

ApplyMove ==
    /\ pc = "loop"
    /\ hunks[index].action = "move"
    /\ Iterate(apply_move(FS, hunks[index], dry_run))

Next ==
    \/ \E dry \in BOOLEAN : ApplyPatch(dry)
    \/ ApplyAdd
    \/ ApplyUpdate
    \/ ApplyDelete
    \/ ApplyMove

----------------------------------------------------------------------------
(* V4APatchParser: the text of a patch, character by character *)

\* the characters str.strip() takes off
StripChars == {" ", "\t", "\n"}

RECURSIVE lstrip(_)
lstrip(s) == IF s # <<>> /\ Head(s) \in StripChars THEN lstrip(Tail(s)) ELSE s

RECURSIVE rstrip(_)
rstrip(s) ==
    IF s # <<>> /\ s[Len(s)] \in StripChars
    THEN rstrip(SubSeq(s, 1, Len(s) - 1)) ELSE s

strip(s) == rstrip(lstrip(s))

startswith(s, w) == StartsWithAt(s, 1, w)

endswith(s, w) == Len(s) >= Len(w) /\ SubSeq(s, Len(s) - Len(w) + 1, Len(s)) = w

\* s.split(w, 1): the parts around the first w, or s alone when w is not in s
split_once(s, w) ==
    LET at == {i \in 1..Len(s) : StartsWithAt(s, i, w)}
    IN  IF at = {} THEN <<s>>
        ELSE <<SubSeq(s, 1, Min(at) - 1), Drop(s, Min(at) + Len(w))>>

BeginPatch ==
    <<"*", "*", "*", " ", "B", "e", "g", "i", "n", " ", "P", "a", "t", "c",
      "h">>

EndPatch ==
    <<"*", "*", "*", " ", "E", "n", "d", " ", "P", "a", "t", "c", "h">>

AddFile ==
    <<"*", "*", "*", " ", "A", "d", "d", " ", "F", "i", "l", "e", ":">>

DeleteFile ==
    <<"*", "*", "*", " ", "D", "e", "l", "e", "t", "e", " ", "F", "i", "l",
      "e", ":">>

UpdateFile ==
    <<"*", "*", "*", " ", "U", "p", "d", "a", "t", "e", " ", "F", "i", "l",
      "e", ":">>

MoveFile ==
    <<"*", "*", "*", " ", "M", "o", "v", "e", " ", "F", "i", "l", "e", ":">>

\* header.split(':', 1)[1].strip() of a header line that holds a colon
header_path(header) == strip(split_once(header, <<":">>)[2])

\* a hunk with its two context lists
WithContext(hunk, context_before, context_after) ==
    [hunk EXCEPT !.context_before = context_before,
                 !.context_after = context_after]

\* what a _parse_*_hunk call hands back: the hunk and the index to go on from,
\* or the exception it raises
Parsed(hunk, next) == [raised |-> FALSE, exc |-> "", hunk |-> hunk, next |-> next]

\* the while loop of _parse_add_hunk from the 0-based line index i
RECURSIVE parse_add_loop(_, _, _)
parse_add_loop(lines, i, added_lines) ==
    IF i >= Len(lines) THEN [added_lines |-> added_lines, i |-> i]
    ELSE LET line == lines[i + 1]
         IN  IF startswith(strip(line), <<"*", "*", "*">>)
             THEN [added_lines |-> added_lines, i |-> i]
             ELSE parse_add_loop(lines, i + 1,
                      IF startswith(line, <<"+">>)
                      THEN Append(added_lines, Tail(line))
                      ELSE added_lines)

parse_add_hunk(lines, start) ==
    LET header == strip(lines[start + 1])
        body == parse_add_loop(lines, start + 1, <<>>)
    IN  Parsed(V4AHunk("add", header_path(header), NoPath, NoHeader, <<>>,
                       body.added_lines), body.i)

parse_delete_hunk(lines, start) ==
    LET header == strip(lines[start + 1])
    IN  Parsed(V4AHunk("delete", header_path(header), NoPath, NoHeader, <<>>, <<>>),
               start + 1)

\* the locals of _parse_update_hunk when its while loop starts
UpdateLocals ==
    [context_header |-> NoHeader, context_before |-> <<>>, removed_lines |-> <<>>,
     added_lines |-> <<>>, context_after |-> <<>>, current_section |-> "before"]

\* one pass of the while loop of _parse_update_hunk over a line that is neither
\* a *** line nor a context header
update_line(v, line) ==
    IF startswith(line, <<" ">>)
    THEN IF v.current_section = "before"
         THEN [v EXCEPT !.context_before = Append(@, Tail(line))]
         ELSE IF v.current_section = "after"
         THEN [v EXCEPT !.context_after = Append(@, Tail(line))]
         ELSE v
    ELSE IF startswith(line, <<"-">>)
    THEN [v EXCEPT !.removed_lines = Append(@, Tail(line)),
                   !.current_section = "changes"]
    ELSE IF startswith(line, <<"+">>)
    THEN [v EXCEPT !.added_lines = Append(@, Tail(line)),
                   !.current_section = IF v.context_after = <<>> THEN "after"
                                       ELSE "changes"]
    ELSE v

\* the while loop of _parse_update_hunk from the 0-based line index i
RECURSIVE parse_update_loop(_, _, _)
parse_update_loop(lines, i, v) ==
    IF i >= Len(lines) THEN [v |-> v, i |-> i]
    ELSE LET line == lines[i + 1]
         IN  IF startswith(strip(line), <<"*", "*", "*">>)
             THEN [v |-> v, i |-> i]
             ELSE IF /\ startswith(strip(line), <<"@", "@">>)
                     /\ endswith(strip(line), <<"@", "@">>)
             THEN parse_update_loop(lines, i + 1,
                                    [v EXCEPT !.context_header = strip(line)])
             ELSE CHOOSE r \in {parse_update_loop(lines, i + 1, w) :
                                   w \in {update_line(v, line)}} : TRUE

parse_update_hunk(lines, start) ==
    LET header == strip(lines[start + 1])
        body == parse_update_loop(lines, start + 1, UpdateLocals)
    IN  Parsed(WithContext(V4AHunk("update", header_path(header), NoPath,
                                   body.v.context_header, body.v.removed_lines,
                                   body.v.added_lines),
                           body.v.context_before, body.v.context_after),
               body.i)

\* old_path, new_path = paths.split('->', 1) raises when there is no arrow
parse_move_hunk(lines, start) ==
    LET header == strip(lines[start + 1])
        paths == split_once(header_path(header), <<"-", ">">>)
    IN  IF Len(paths) < 2
        THEN [raised |-> TRUE,
              exc |-> "not enough values to unpack (expected 2, got 1)",
              hunk |-> V4AHunk("move", NoPath, NoPath, NoHeader, <<>>, <<>>),
              next |-> start]
        ELSE Parsed(V4AHunk("move", strip(paths[1]), strip(paths[2]), NoHeader,
                            <<>>, <<>>),
                    start + 1)

\* what parse returns or raises
Hunks(found) == [raised |-> FALSE, exc |-> "", hunks |-> found]
ValueError(exc) == [raised |-> TRUE, exc |-> exc, hunks |-> <<>>]

\* the while loop of parse: it ends at the first End Patch line
RECURSIVE parse_loop(_, _, _)
parse_loop(lines, i, found) ==
    IF i >= Len(lines) THEN Hunks(found)
    ELSE LET line == strip(lines[i + 1])
         IN  IF \/ startswith(line, AddFile) \/ startswith(line, DeleteFile)
                \/ startswith(line, UpdateFile) \/ startswith(line, MoveFile)
             THEN CHOOSE r \in
                      {IF p.raised THEN ValueError(p.exc)
                       ELSE parse_loop(lines, p.next, Append(found, p.hunk)) :
                          p \in {IF startswith(line, AddFile)
                                 THEN parse_add_hunk(lines, i)
                                 ELSE IF startswith(line, DeleteFile)
                                 THEN parse_delete_hunk(lines, i)
                                 ELSE IF startswith(line, UpdateFile)
                                 THEN parse_update_hunk(lines, i)
                                 ELSE parse_move_hunk(lines, i)}} : TRUE
             ELSE IF startswith(line, EndPatch) THEN Hunks(found)
             ELSE parse_loop(lines, i + 1, found)

\* a parse that checks the Begin marker only
V4APatchParser_parse_no_end(text) ==
    IF ~startswith(strip(text), BeginPatch)
    THEN ValueError("Invalid V4A patch: missing '*** Begin Patch' marker")
    ELSE CHOOSE r \in {parse_loop(lines, 1, <<>>) : lines \in {SplitLines(text)}} :
             TRUE

\* V4APatchParser.parse
V4APatchParser_parse(text) ==
    IF ~startswith(strip(text), BeginPatch)
    THEN ValueError("Invalid V4A patch: missing '*** Begin Patch' marker")
    ELSE IF ~endswith(strip(text), EndPatch)
    THEN ValueError("Invalid V4A patch: missing '*** End Patch' marker")
    ELSE CHOOSE r \in {parse_loop(lines, 1, <<>>) : lines \in {SplitLines(text)}} :
             TRUE

\* (is_valid, error_message)
validate_patch(text) ==
    LET p == V4APatchParser_parse(text)
    IN  IF p.raised THEN <<FALSE, p.exc>> ELSE <<TRUE, "None">>

----------------------------------------------------------------------------
(* apply_patch as one call, from the text to the results *)

\* the path a path string names: its components, which are one character long
\* in the texts used here
path_of(s) == SelectSeq(s, LAMBDA ch : ch # "/")

\* a parsed hunk as the _apply_* methods see its paths
OnPaths(hunk) ==
    [hunk EXCEPT !.file_path = path_of(@), !.new_path = path_of(@)]

\* the branch of the for loop of apply_patch for one hunk
apply_hunk(fs, hunk, dry) ==
    IF hunk.action = "add" THEN apply_add(fs, hunk, dry)
    ELSE IF hunk.action = "update" THEN apply_update(fs, hunk, dry)
    ELSE IF hunk.action = "delete" THEN apply_delete(fs, hunk, dry)
    ELSE apply_move(fs, hunk, dry)

\* the for loop of apply_patch over the hunks left to do; record_and_go_on is
\* the rest of an iteration once the hunk's _apply_* call has come back with
\* out
RECURSIVE apply_hunks(_, _, _, _), record_and_go_on(_, _, _, _)
apply_hunks(fs, todo, dry, res) ==
    IF todo = <<>> THEN [results |-> res, fs |-> fs]
    ELSE CHOOSE r \in {record_and_go_on(out, todo, dry, res) :
                          out \in {apply_hunk(fs, Head(todo), dry)}} : TRUE

record_and_go_on(out, todo, dry, res) ==
    CHOOSE r \in {apply_hunks(out.fs, Tail(todo), dry, res_) :
                     res_ \in {record(res, Head(todo), out)}} : TRUE

\* apply_patch once parse has returned or raised p
apply_parsed(fs, p, dry) ==
    IF p.raised
    THEN [results |-> [success |-> FALSE, operations |-> <<>>,
                       errors |-> <<<<"Parse error", p.exc>>>>],
          fs |-> fs]
    ELSE CHOOSE r \in {apply_hunks(fs, todo, dry, NewResults) :
                          todo \in {[k \in 1..Len(p.hunks) |-> OnPaths(p.hunks[k])]}} :
             TRUE

apply_patch(fs, text, dry) ==
    CHOOSE r \in {apply_parsed(fs, p, dry) : p \in {V4APatchParser_parse(text)}} :
        TRUE

----------------------------------------------------------------------------
(* ImplementerStage.run_implementer: the retry loop around the applier *)

\* raw_output[index('*** Begin Patch') : rindex('*** End Patch') + len], or
\* raw_output itself when a delimiter is missing
extract_patch(raw_output) ==
    LET begins == {i \in 1..Len(raw_output) : StartsWithAt(raw_output, i, BeginPatch)}
        ends == {i \in 1..Len(raw_output) : StartsWithAt(raw_output, i, EndPatch)}
        last == CHOOSE i \in ends : \A j \in ends : j <= i
    IN  IF begins = {} \/ ends = {} THEN raw_output
        ELSE SubSeq(raw_output, Min(begins), last + Len(EndPatch) - 1)

prepare_implementer_input(task_, context) ==
    [task |-> task_, file_context |-> context, output_format |-> "v4a_patch",
     instructions |-> "v4a instructions", attempt_number |-> 1,
     previous_attempt |-> <<>>, errors |-> <<>>, suggestions |-> <<>>]

\* the suggestions of the failed operations, in order
RECURSIVE extract_suggestions(_)
extract_suggestions(ops) ==
    IF ops = <<>> THEN <<>>
    ELSE (IF ~Head(ops).success THEN Head(ops).suggestions ELSE <<>>)
             \o extract_suggestions(Tail(ops))

prepare_retry_input(previous_input, failed_patch, errors) ==
    [previous_input EXCEPT
        !.previous_attempt = <<failed_patch>>,
        !.errors = errors.errors,
        !.suggestions = extract_suggestions(errors.operations),
        !.attempt_number = @ + 1]

\* the parts the prompt string is put together from
build_prompt_from_input(input) ==
    [instructions |-> input.instructions,
     task |-> input.task,
     file_context |-> input.file_context,
     previous |-> IF input.previous_attempt = <<>> THEN <<>>
                  ELSE <<[errors |-> input.errors,
                          patch |-> input.previous_attempt[1]]>>]

\* what follows the dry run when its result is ignored
after_dry_run_unchecked(result) == "apply"

\* what follows the dry run
after_dry_run(result) == IF result.success THEN "apply" ELSE "retry"

RunFS == [files |-> files, dirs |-> dirs]

\* one pass of the loop up to the agent's answer: the prompt is built, the
\* agent answers with a text and the patch is cut out of it
CallAgent(raw_output) ==
    /\ stage = "loop" /\ attempt < max_retries
    /\ prompt' = build_prompt_from_input(implementer_input)
    /\ patch_output' = extract_patch(raw_output)
    /\ log' = Append(log, [event |-> "agent", attempt |-> attempt,
                           prompt |-> build_prompt_from_input(implementer_input)])
    /\ stage' = "dry_run"
    /\ UNCHANGED <<attempt, max_retries, task, implementer_input, dry_run_result,
                   run_result, fs_before_run, fs_vars>>
    /\ UNCHANGED <<applier_vars, parser_vars, race_vars, extractor_vars, execute_vars>>

\* the agent call raises (the HTTP request failed) and run_implementer with it
CallAgentRaises ==
    /\ stage = "loop" /\ attempt < max_retries
    /\ prompt' = build_prompt_from_input(implementer_input)
    /\ log' = Append(log, [event |-> "agent", attempt |-> attempt,
                           prompt |-> build_prompt_from_input(implementer_input)])
    /\ stage' = "raised"
    /\ run_result' = [exception |-> "RequestException"]
    /\ UNCHANGED <<attempt, max_retries, task, implementer_input, patch_output,
                   dry_run_result, fs_before_run, fs_vars>>
    /\ UNCHANGED <<applier_vars, parser_vars, race_vars, extractor_vars, execute_vars>>

DryRun ==
    /\ stage = "dry_run"
    /\ \E out \in {apply_patch(RunFS, patch_output, TRUE)} :
          /\ dry_run_result' = <<out.results>>
          /\ files' = out.fs.files
          /\ dirs' = out.fs.dirs
          /\ log' = Append(log, [event |-> "dry_run", attempt |-> attempt,
                                 patch |-> patch_output, result |-> out.results])
          /\ stage' = after_dry_run(out.results)
    /\ UNCHANGED <<attempt, max_retries, task, implementer_input, prompt,
                   patch_output, run_result, fs_before_run>>
    /\ UNCHANGED <<applier_vars, parser_vars, race_vars, extractor_vars, execute_vars>>

RealApply ==
    /\ stage = "apply"
    /\ \E out \in {apply_patch(RunFS, patch_output, FALSE)} :
          /\ files' = out.fs.files
          /\ dirs' = out.fs.dirs
          /\ log' = Append(log, [event |-> "apply", attempt |-> attempt,
                                 patch |-> patch_output, result |-> out.results])
          /\ run_result' = [success |-> TRUE, attempt |-> attempt + 1,
                            operations |-> out.results.operations]
    /\ stage' = "returned"
    /\ UNCHANGED <<attempt, max_retries, task, implementer_input, prompt,
                   patch_output, dry_run_result, fs_before_run>>
    /\ UNCHANGED <<applier_vars, parser_vars, race_vars, extractor_vars, execute_vars>>

Retry ==
    /\ stage = "retry"
    /\ implementer_input' = prepare_retry_input(implementer_input, patch_output,
                                                dry_run_result[1])
    /\ attempt' = attempt + 1
    /\ stage' = "loop"
    /\ UNCHANGED <<max_retries, task, prompt, patch_output, dry_run_result,
                   run_result, log, fs_before_run, fs_vars>>
    /\ UNCHANGED <<applier_vars, parser_vars, race_vars, extractor_vars, execute_vars>>

\* the loop is over: the last dry run's errors are reported, and the name
\* dry_run_result is unbound when the loop never ran
AllRetriesFailed ==
    /\ stage = "loop" /\ attempt >= max_retries
    /\ IF dry_run_result = <<>>
       THEN /\ stage' = "raised"
            /\ run_result' = [exception |-> "UnboundLocalError"]
       ELSE /\ stage' = "returned"
            /\ run_result' = [success |-> FALSE, attempts |-> max_retries,
                              last_error |-> dry_run_result[1].errors]
    /\ UNCHANGED <<attempt, max_retries, task, implementer_input, prompt,
                   patch_output, dry_run_result, log, fs_before_run, fs_vars>>
    /\ UNCHANGED <<applier_vars, parser_vars, race_vars, extractor_vars, execute_vars>>

\* the workflow is not running
RunIdle ==
    /\ stage = "idle"
    /\ attempt = 0
    /\ max_retries = 0
    /\ task = [description |-> "", acceptance_criteria |-> <<>>]
    /\ implementer_input = prepare_implementer_input(task, "")
    /\ prompt = build_prompt_from_input(implementer_input)
    /\ patch_output = <<>>
    /\ dry_run_result = <<>>
    /\ run_result = [exception |-> ""]
    /\ log = <<>>
    /\ fs_before_run = RunFS

----------------------------------------------------------------------------
(* _apply_update called by two callers at once on one file *)

Callers == {1, 2}

\* f.write at the start of a file that was opened for writing: the text takes
\* the place of the characters it covers
overwrite(old, text) == text \o SubSeq(old, Len(text) + 1, Len(old))

\* the exists test, the read and the search of _apply_update: the call goes on
\* to write when it has found the code, and returns when it has not
ReadFile(c) ==
    /\ call_pc[c] = "start"
    /\ schedule' = Append(schedule, <<c, "read">>)
    /\ \E out \in {apply_update(RunFS, call_hunk[c], TRUE)} :
          IF out.result.success
          THEN /\ call_lines' = [call_lines EXCEPT
                                    ![c] = SplitLines(files[call_hunk[c].file_path])]
               /\ call_pc' = [call_pc EXCEPT ![c] = "read"]
               /\ UNCHANGED call_result
          ELSE /\ call_result' = [call_result EXCEPT ![c] = <<out.result>>]
               /\ call_pc' = [call_pc EXCEPT ![c] = "returned"]
               /\ UNCHANGED call_lines
    /\ UNCHANGED <<call_hunk, race_entry, fs_vars>>
    /\ UNCHANGED <<applier_vars, parser_vars, run_vars, extractor_vars, execute_vars>>

\* open(hunk.file_path, 'w') empties the file
OpenForWrite(c) ==
    /\ call_pc[c] = "read"
    /\ schedule' = Append(schedule, <<c, "open">>)
    /\ files' = write(RunFS, call_hunk[c].file_path, <<>>).files
    /\ call_pc' = [call_pc EXCEPT ![c] = "opened"]
    /\ UNCHANGED <<call_hunk, call_lines, call_result, race_entry, dirs>>
    /\ UNCHANGED <<applier_vars, parser_vars, run_vars, extractor_vars, execute_vars>>

\* f.write('\n'.join(new_lines)), the close of the file and the return
WriteFile(c) ==
    /\ call_pc[c] = "opened"
    /\ schedule' = Append(schedule, <<c, "write">>)
    /\ LET m == match_result(call_lines[c], call_hunk[c])
           text == JoinLines(new_lines(call_lines[c], call_hunk[c], m))
       IN  /\ files' = write(RunFS, call_hunk[c].file_path,
                             overwrite(files[call_hunk[c].file_path], text)).files
           /\ call_result' = [call_result EXCEPT
                 ![c] = <<ApplyResult(TRUE, "update", call_hunk[c].file_path,
                                      <<m.start_line, m.end_line>>, m.strategy,
                                      "none", <<>>)>>]
    /\ call_pc' = [call_pc EXCEPT ![c] = "returned"]
    /\ UNCHANGED <<call_hunk, call_lines, race_entry, dirs>>
    /\ UNCHANGED <<applier_vars, parser_vars, run_vars, extractor_vars, execute_vars>>

\* no _apply_update call is running
RaceIdle ==
    /\ call_pc = [c \in Callers |-> "idle"]
    /\ call_hunk = [c \in Callers |-> <<>>]
    /\ call_lines = [c \in Callers |-> <<>>]
    /\ call_result = [c \in Callers |-> <<>>]
    /\ schedule = <<>>
    /\ race_entry = <<>>

----------------------------------------------------------------------------
(* ContextExtractor (src/orchestrator/context_extractor.py) *)

\* an Optional value: None, or the value
None == <<>>
Some(v) == <<v>>

Max(S) == CHOOSE x \in S : \A y \in S : y <= x

\* str.lower on the letters of the texts used here
lower(s) ==
    [i \in 1..Len(s) |->
        IF s[i] = "A" THEN "a" ELSE IF s[i] = "F" THEN "f"
        ELSE IF s[i] = "U" THEN "u" ELSE IF s[i] = "Z" THEN "z" ELSE s[i]]

\* w in s
Contains(s, w) == \E i \in 1..(Len(s) - Len(w) + 1) : StartsWithAt(s, i, w)

\* the letter e with an acute accent, one character of two bytes in UTF-8
EAcute == "e-acute"

\* os.path.getsize: the bytes of the text in UTF-8
getsize(text) ==
    Len(text) + Cardinality({i \in 1..Len(text) : text[i] = EAcute})

\* f.readlines(): the lines with their newlines, none for an empty text
RECURSIVE readlines(_)
readlines(text) ==
    LET nls == {i \in 1..Len(text) : text[i] = NL}
    IN  IF text = <<>> THEN <<>>
        ELSE IF nls = {} THEN <<text>>
        ELSE CHOOSE r \in {<<SubSeq(text, 1, first)>>
                              \o readlines(Drop(text, first + 1)) :
                          first \in {Min(nls)}} : TRUE

\* ''.join(lines)
Concat(lines) == JoinWith(<<>>, lines)

SymbolInfo(type, name, lineno, end_lineno, docstring) ==
    [type |-> type, name |-> name, lineno |-> lineno, end_lineno |-> end_lineno,
     docstring |-> docstring]

ContextSection(lines, line_start, line_end, symbol, symbol_type, reason, matched_keywords) ==
    [lines |-> lines, line_start |-> line_start, line_end |-> line_end,
     symbol |-> symbol, symbol_type |-> symbol_type, reason |-> reason,
     matched_keywords |-> matched_keywords]

FileContext(path, file_exists, action, total_lines, all_symbols, relevant_sections, full_content, strategy_tag) ==
    [file_path |-> path, file_exists |-> file_exists, action |-> action,
     total_lines |-> total_lines, all_symbols |-> all_symbols,
     relevant_sections |-> relevant_sections, full_content |-> full_content,
     strategy |-> strategy_tag]

\* [s.name for s in symbols]
Names(symbols) == [k \in 1..Len(symbols) |-> symbols[k].name]

stopwords ==
    {<<"a", "d", "d">>,
     <<"c", "r", "e", "a", "t", "e">>,
     <<"u", "p", "d", "a", "t", "e">>,
     <<"m", "o", "d", "i", "f", "y">>,
     <<"w", "r", "i", "t", "e">>,
     <<"i", "m", "p", "l", "e", "m", "e", "n", "t">>,
     <<"f", "u", "n", "c", "t", "i", "o", "n">>,
     <<"c", "l", "a", "s", "s">>,
     <<"m", "e", "t", "h", "o", "d">>,
     <<"f", "i", "l", "e">>,
     <<"c", "o", "d", "e">>,
     <<"t", "o">>,
     <<"t", "h", "e">>,
     <<"a">>,
     <<"a", "n">>,
     <<"w", "i", "t", "h">>,
     <<"f", "o", "r">>,
     <<"i", "n">>,
     <<"t", "h", "a", "t">>,
     <<"i", "s">>,
     <<"a", "n", "d">>,
     <<"o", "r">>,
     <<"o", "f">>,
     <<"f", "r", "o", "m">>,
     <<"b", "y">>,
     <<"a", "t">>,
     <<"o", "n">>}

\* word.strip('.,!?()[]{}')
Punctuation == {".", ",", "!", "?", "(", ")", "[", "]", "{", "}"}

RECURSIVE strip_punctuation(_)
strip_punctuation(w) ==
    IF w = <<>> THEN w
    ELSE IF Head(w) \in Punctuation THEN strip_punctuation(Tail(w))
    ELSE IF w[Len(w)] \in Punctuation
    THEN strip_punctuation(SubSeq(w, 1, Len(w) - 1))
    ELSE w

extract_keywords(task_text) ==
    LET words == SplitWords(lower(task_text))
        clean == [k \in 1..Len(words) |-> strip_punctuation(words[k])]
    IN  SelectSeq(clean, LAMBDA w : w # <<>> /\ w \notin stopwords /\ Len(w) > 2)

\* the keywords found in a symbol's name or docstring
SymbolKeywords(symbol, keywords) ==
    SelectSeq(keywords,
              LAMBDA kw : \/ Contains(lower(symbol.name), kw)
                          \/ /\ symbol.docstring # <<>>
                             /\ Contains(lower(symbol.docstring), kw))

match_symbols_to_keywords(symbols, keywords) ==
    SelectSeq(symbols, LAMBDA symbol : SymbolKeywords(symbol, keywords) # <<>>)

\* the line of a symbol in the outline; the symbols handed to
\* _create_file_outline are built without methods
outline_line(symbol) ==
    IF symbol.type = "class"
    THEN <<"c", "l", "a", "s", "s", " ">> \o symbol.name \o <<":">>
    ELSE <<"d", "e", "f", " ">> \o symbol.name \o <<"(", ".", ".", ".", ")">>

create_file_outline(symbols) ==
    IF symbols = <<>>
    THEN <<"#", " ", "E", "m", "p", "t", "y", " ", "f", "i", "l", "e", " ", "o", "r", " ", "n", "o", " ", "s", "y", "m", "b", "o", "l", "s", " ", "f", "o", "u", "n", "d">>
    ELSE JoinLines([k \in 1..Len(symbols) |-> outline_line(symbols[k])])

\* the body of the for loop of _build_context_sections
symbol_section(lines, symbol, keywords) ==
    LET start == Max({0, symbol.lineno - 6})
        end == Min({Len(lines), symbol.end_lineno + 6})
    IN  ContextSection(JoinLines(SubSeq(lines, start + 1, end)),
                       start + 1, end + 1,
                       Some(symbol.name), Some(symbol.type), None,
                       Some(SymbolKeywords(symbol, keywords)))

build_context_sections(lines, relevant_symbols, keywords) ==
    LET sections == [k \in 1..Len(relevant_symbols) |->
                        symbol_section(lines, relevant_symbols[k], keywords)]
    IN  IF sections # <<>> THEN sections
        ELSE <<ContextSection(create_file_outline(relevant_symbols), 1, Len(lines),
                              None, None, Some("file_outline"), None)>>

\* the character classes \s and \w of the regular expressions
ReSpace == {" ", "\t", "\n"}
ReWord ==
    {"a", "b", "c", "d", "e", "f", "g", "h", "i", "j", "k", "l", "m", "n", "o",
     "p", "q", "r", "s", "t", "u", "v", "w", "x", "y", "z", "A", "F", "U", "Z",
     "_", EAcute}

\* where \s+(\w+)\s* ends when it starts at a: <<start of the name, end of the
\* name + 1, position after the trailing blanks>>, <<>> when it does not match
NameAfter(line, a) ==
    LET b == a + Run(line, a, ReSpace)
        c == b + Run(line, b, ReWord)
    IN  IF b > a /\ c > b THEN <<b, c, c + Run(line, c, ReSpace)>> ELSE <<>>

\* re.search(rf'(?:w1|w2|...)\s+(\w+)\s*[closers]', line).group(1), <<>> for no match
NameDeclared(line, openers, closers) ==
    LET hits == {i \in 1..Len(line) :
                    \E w \in openers :
                        /\ StartsWithAt(line, i, w)
                        /\ NameAfter(line, i + Len(w)) # <<>>
                        /\ NameAfter(line, i + Len(w))[3] <= Len(line)
                        /\ line[NameAfter(line, i + Len(w))[3]] \in closers}
        i0 == Min(hits)
        w0 == CHOOSE w \in openers : StartsWithAt(line, i0, w)
        at == NameAfter(line, i0 + Len(w0))
    IN  IF hits = {} THEN <<>> ELSE <<SubSeq(line, at[1], at[2] - 1)>>

FunctionOpeners ==
    {<<"d", "e", "f">>, <<"v", "o", "i", "d">>, <<"i", "n", "t">>, <<"b", "o", "o", "l">>, <<"s", "t", "r", "i", "n", "g">>}

ClassOpeners == {<<"c", "l", "a", "s", "s">>}

\* the symbols of one line, 0-based line number i
line_symbols(line, i) ==
    LET func == NameDeclared(line, FunctionOpeners, {"("})
        class == NameDeclared(line, ClassOpeners, {"(", ":"})
    IN  (IF func # <<>>
         THEN <<SymbolInfo("function", func[1], i + 1, i + 1, None)>> ELSE <<>>)
        \o (IF class # <<>>
            THEN <<SymbolInfo("class", class[1], i + 1, i + 1, None)>> ELSE <<>>)

RECURSIVE extract_symbols_from(_, _)
extract_symbols_from(lines, i) ==
    IF i >= Len(lines) THEN <<>>
    ELSE line_symbols(lines[i + 1], i) \o extract_symbols_from(lines, i + 1)

extract_symbols_heuristic(lines) == extract_symbols_from(lines, 0)

\* the keywords that occur in the line
matched_kws(line, keywords) ==
    SelectSeq(keywords, LAMBDA kw : Contains(lower(line), kw))

\* the window around the match at the 0-based line match_idx
keyword_window(lines, match_idx) ==
    <<Max({0, match_idx - 10}), Min({Len(lines), match_idx + 10})>>

\* the for loop over keyword_matches[:5]: the matches are the 0-based numbers
\* of the lines with a keyword, in order
RECURSIVE keyword_sections(_, _, _, _)
keyword_sections(lines, keywords, matches, processed_ranges) ==
    IF matches = <<>> THEN <<>>
    ELSE LET range_key == keyword_window(lines, Head(matches))
         IN  IF range_key \in processed_ranges
             THEN keyword_sections(lines, keywords, Tail(matches), processed_ranges)
             ELSE <<ContextSection(
                        Concat(SubSeq(lines, range_key[1] + 1, range_key[2])),
                        range_key[1] + 1, range_key[2] + 1, None, None,
                        Some("keyword_match"),
                        Some(matched_kws(lines[Head(matches) + 1], keywords)))>>
                  \o keyword_sections(lines, keywords, Tail(matches),
                                      processed_ranges \cup {range_key})

\* the sections of the first and of the last 25 lines
start_and_end_sections(lines) ==
    <<ContextSection(Concat(SubSeq(lines, 1, Min({25, Len(lines)}))),
                     1, Min({25, Len(lines)}), None, None, Some("file_start"), None),
      ContextSection(Concat(SubSeq(lines, Max({1, Len(lines) - 24}), Len(lines))),
                     Max({1, Len(lines) - 24}), Len(lines), None, None,
                     Some("file_end"), None)>>

heuristic_context(path, lines, keywords) ==
    LET hit == {i \in 0..(Len(lines) - 1) : matched_kws(lines[i + 1], keywords) # <<>>}
        keyword_matches == [k \in 1..Cardinality(hit) |->
                               CHOOSE i \in hit :
                                   Cardinality({j \in hit : j < i}) = k - 1]
        context_sections ==
            keyword_sections(lines, keywords,
                             SubSeq(keyword_matches, 1, Min({5, Len(keyword_matches)})),
                             {})
    IN  FileContext(path, TRUE, "update", Some(Len(lines)),
                    Some(Names(extract_symbols_heuristic(lines))),
                    Some(IF context_sections # <<>> THEN context_sections
                         ELSE start_and_end_sections(lines)),
                    None, "heuristic")

extract_with_heuristic(path, text, task_text) ==
    CHOOSE r \in {heuristic_context(path, lines, keywords) :
                     lines \in {readlines(text)},
                     keywords \in {extract_keywords(task_text)}} : TRUE

\* the part of _extract_with_ast and _extract_with_tree_sitter after the parse
symbol_context(path, lines, symbols, keywords, strategy_tag) ==
    FileContext(path, TRUE, "update", Some(Len(lines)), Some(Names(symbols)),
                Some(build_context_sections(
                         lines, match_symbols_to_keywords(symbols, keywords),
                         keywords)),
                None, strategy_tag)

\* tree is what the parser makes of the file: whether ast.parse accepts it,
\* and the symbols the walk of the tree meets
extract_with_ast(path, text, task_text, tree) ==
    IF ~tree.syntax_ok THEN extract_with_heuristic(path, text, task_text)
    ELSE CHOOSE r \in {symbol_context(path, lines, tree.symbols, keywords, "ast") :
                          lines \in {SplitLines(text)},
                          keywords \in {extract_keywords(task_text)}} : TRUE

CppSuffixes == {<<".", "c", "p", "p">>, <<".", "c", "c">>, <<".", "h">>, <<".", "h", "p", "p">>}

\* packages are the importable ones among tree_sitter, tree_sitter_python
\* and tree_sitter_cpp
extract_with_tree_sitter(path, text, task_text, tree, packages) ==
    IF "tree_sitter" \notin packages
    THEN IF endswith(path, <<".", "p", "y">>)
         THEN extract_with_ast(path, text, task_text, tree)
         ELSE extract_with_heuristic(path, text, task_text)
    ELSE IF endswith(path, <<".", "p", "y">>) /\ "tree_sitter_python" \notin packages
    THEN extract_with_ast(path, text, task_text, tree)
    ELSE IF (\E suffix \in CppSuffixes : endswith(path, suffix))
            /\ "tree_sitter_cpp" \notin packages
    THEN extract_with_heuristic(path, text, task_text)
    ELSE IF ~endswith(path, <<".", "p", "y">>)
            /\ ~(\E suffix \in CppSuffixes : endswith(path, suffix))
    THEN extract_with_heuristic(path, text, task_text)
    ELSE CHOOSE r \in {symbol_context(path, lines, tree.symbols, keywords,
                                      "tree_sitter") :
                          lines \in {SplitLines(text)},
                          keywords \in {extract_keywords(task_text)}} : TRUE

\* an extractor that leaves the lists of a missing file's context unset
extract_for_task_unset_lists(fs, conf, path, task_text, tree, packages) ==
    FileContext(path, path \in DOMAIN fs.files, "create", None, None, None, None,
                "none_file_not_exists")

\* os.path.exists for the path string of the extractor
path_exists(fs, path) == path \in DOMAIN fs.files

extract_for_task(fs, conf, path, task_text, tree, packages) ==
    IF ~path_exists(fs, path)
    THEN FileContext(path, FALSE, "create", None, Some(<<>>), Some(<<>>), None,
                     "none_file_not_exists")
    ELSE IF getsize(fs.files[path]) < conf.small_file_threshold
    THEN FileContext(path, TRUE, "update", Some(Len(SplitLines(fs.files[path]))),
                     None, None, Some(fs.files[path]), "full_file_small")
    ELSE IF conf.strategy = "tree_sitter"
    THEN extract_with_tree_sitter(path, fs.files[path], task_text, tree, packages)
    ELSE IF conf.strategy = "ast"
    THEN extract_with_ast(path, fs.files[path], task_text, tree)
    ELSE extract_with_heuristic(path, fs.files[path], task_text)

\* one call of extract_for_task
ExtractForTask ==
    /\ file_context = <<>>
    /\ file_context' = <<extract_for_task(RunFS, extractor, target_path,
                                          task_description, parsed, installed)>>
    /\ UNCHANGED <<extractor, target_path, task_description, parsed, installed,
                   fs_vars>>
    /\ UNCHANGED <<applier_vars, parser_vars, run_vars, race_vars, execute_vars>>

\* no extraction is asked for
ExtractorIdle ==
    /\ extractor = [strategy |-> "tree_sitter", small_file_threshold |-> 5120]
    /\ target_path = <<>>
    /\ task_description = <<>>
    /\ parsed = [syntax_ok |-> TRUE, symbols |-> <<>>]
    /\ installed = {}
    /\ file_context = <<>>

-----------------------------------------------------------------------------
(* StateMachine.execute: the workflow from a request to DONE or FAILED *)

\* the members of the enumeration State that execute enters
IDLE == "IDLE"
SCANNING_CODEBASE == "SCANNING_CODEBASE"
PLANNING == "PLANNING"
TEST_AUTHORING == "TEST_AUTHORING"
IMPLEMENTING == "IMPLEMENTING"
VALIDATING == "VALIDATING"
COMMIT == "COMMIT"
DONE == "DONE"
FAILED == "FAILED"
ROLLBACK == "ROLLBACK"

\* what is written to the journal besides the states: a real apply_patch of
\* the implementer stage changed the project, git reset/clean restored it,
\* git commit recorded it
PatchApplied == "patch_applied"
GitRollback == "git_rollback"
GitCommit == "git_commit"

\* ExecutionResult, without the metrics
ExecutionResult(success, commit_hash, error) ==
    [success |-> success, commit_hash |-> commit_hash, error |-> error]

\* _save_state: the state file holds new_state when the write succeeded
save_state(new_state, written) ==
    IF written THEN <<new_state>> ELSE saved_state

\* Validator.validate(self, code_diff, tests) called with the positional
\* arguments args: Python binds them first, and raises TypeError when their
\* number is not the two the signature asks for; a bound call applies the
\* diff (which raises when patch fails) and reports passed or not
Validator_validate(args) ==
    IF Len(args) # 2 THEN {"TypeError"}
    ELSE {"passed", "not_passed", "CalledProcessError"}

\* _validate: validator.validate(tests), one positional argument
validate(tests) == Validator_validate(<<tests>>)

\* the largest number of tasks of a planned task graph
MaxTasks == 2

\* the task graphs _plan returns: the ids of 0 to MaxTasks tasks
PlannedTasks == {[i \in 1..n |-> i] : n \in 0..MaxTasks}

\* what _implement can come back with. run_implementer_stage returns success
\* True after a real apply (which changed the project, or, when every real
\* operation failed, did not), success False when all attempts failed their
\* dry run; ValueError and FileNotFoundError (a missing configuration file)
\* are turned into success False; any other exception (a failed request to
\* the agent, a configuration that does not load) leaves _implement
ImplementOutcomes ==
    { [raised |-> FALSE, success |-> TRUE, applied |-> TRUE],
      [raised |-> FALSE, success |-> TRUE, applied |-> FALSE],
      [raised |-> FALSE, success |-> FALSE, applied |-> FALSE],
      [raised |-> TRUE, success |-> FALSE, applied |-> FALSE] }

\* the end of execute after the loop over the tasks: the commit when
\* auto_commit is set, the transition to DONE and the return. c says which
\* of the writes of the state file and of the git calls succeed. The value
\* is what the step leaves behind.
commit_and_finish(auto, c) ==
    IF auto /\ ~c.commit_saved
    THEN [entered |-> <<COMMIT>>, state |-> COMMIT, saved |-> saved_state,
          pc |-> "except", result |-> <<>>]
    ELSE IF auto /\ ~c.committed
    THEN [entered |-> <<COMMIT>>, state |-> COMMIT, saved |-> <<COMMIT>>,
          pc |-> "except", result |-> <<>>]
    ELSE LET before == IF auto THEN <<COMMIT, GitCommit>> ELSE <<>>
             kept == IF auto THEN <<COMMIT>> ELSE saved_state
             hash == IF auto THEN <<"hash">> ELSE <<>>
         IN  IF c.done_saved
             THEN [entered |-> before \o <<DONE>>, state |-> DONE,
                   saved |-> <<DONE>>, pc |-> "returned",
                   result |-> <<ExecutionResult(TRUE, hash, <<>>)>>]
             ELSE [entered |-> before \o <<DONE>>, state |-> DONE,
                   saved |-> kept, pc |-> "except", result |-> <<>>]

\* execute, up to the scan: the transition to SCANNING_CODEBASE and
\* _scan_codebase; either may raise
ScanCodebase ==
    /\ execute_pc = "start"
    /\ \E written \in BOOLEAN, scanned \in BOOLEAN :
          /\ current_state' = SCANNING_CODEBASE
          /\ saved_state' = save_state(SCANNING_CODEBASE, written)
          /\ journal' = Append(journal, SCANNING_CODEBASE)
          /\ execute_pc' = IF written /\ scanned THEN "plan" ELSE "except"
    /\ UNCHANGED <<current_task, retry_count, auto_commit, task_graph, task_index,
                   execution_result, worktree>>
    /\ UNCHANGED <<fs_vars, applier_vars, parser_vars, run_vars, race_vars,
                   extractor_vars>>

\* the transition to PLANNING and _plan, which returns a task graph (an
\* answer that does not parse gives the graph without tasks) or raises
Plan ==
    /\ execute_pc = "plan"
    /\ \E written \in BOOLEAN, planned \in {<<>>} \cup {<<ts>> : ts \in PlannedTasks} :
          /\ current_state' = PLANNING
          /\ saved_state' = save_state(PLANNING, written)
          /\ journal' = Append(journal, PLANNING)
          /\ IF written /\ planned # <<>>
             THEN /\ task_graph' = planned
                  /\ execute_pc' = IF planned[1] = <<>> THEN "no_tasks" ELSE "author"
             ELSE /\ task_graph' = task_graph
                  /\ execute_pc' = "except"
    /\ UNCHANGED <<current_task, retry_count, auto_commit, task_index,
                   execution_result, worktree>>
    /\ UNCHANGED <<fs_vars, applier_vars, parser_vars, run_vars, race_vars,
                   extractor_vars>>

\* no tasks were planned: the transition to DONE and the return
NoTasks ==
    /\ execute_pc = "no_tasks"
    /\ \E written \in BOOLEAN :
          /\ current_state' = DONE
          /\ saved_state' = save_state(DONE, written)
          /\ journal' = Append(journal, DONE)
          /\ IF written
             THEN /\ execute_pc' = "returned"
                  /\ execution_result' = <<ExecutionResult(TRUE, <<>>, <<>>)>>
             ELSE /\ execute_pc' = "except"
                  /\ execution_result' = execution_result
    /\ UNCHANGED <<current_task, retry_count, auto_commit, task_graph, task_index,
                   worktree>>
    /\ UNCHANGED <<fs_vars, applier_vars, parser_vars, run_vars, race_vars,
                   extractor_vars>>

\* the transition to TEST_AUTHORING and _author_tests
AuthorTests ==
    /\ execute_pc = "author"
    /\ \E written \in BOOLEAN, authored \in BOOLEAN :
          /\ current_state' = TEST_AUTHORING
          /\ saved_state' = save_state(TEST_AUTHORING, written)
          /\ journal' = Append(journal, TEST_AUTHORING)
          /\ execute_pc' = IF written /\ authored THEN "implement" ELSE "except"
    /\ task_index' = 1
    /\ UNCHANGED <<current_task, retry_count, auto_commit, task_graph,
                   execution_result, worktree>>
    /\ UNCHANGED <<fs_vars, applier_vars, parser_vars, run_vars, race_vars,
                   extractor_vars>>

\* one turn of the loop up to the implementation's result: the task becomes
\* the current one, the transition to IMPLEMENTING, _implement
Implement ==
    /\ execute_pc = "implement"
    /\ \E written \in BOOLEAN, outcome \in ImplementOutcomes :
          LET id == task_graph[1][task_index]
          IN  /\ current_task' = <<id>>
              /\ retry_count' = 0
              /\ current_state' = IMPLEMENTING
              /\ saved_state' = save_state(IMPLEMENTING, written)
              /\ IF ~written
                 THEN /\ journal' = Append(journal, IMPLEMENTING)
                      /\ worktree' = worktree
                      /\ execute_pc' = "except"
                 ELSE /\ journal' = journal \o <<IMPLEMENTING>> \o
                                    (IF outcome.applied THEN <<PatchApplied>> ELSE <<>>)
                      /\ worktree' = IF outcome.applied THEN worktree \cup {id}
                                     ELSE worktree
                      /\ execute_pc' = IF outcome.raised THEN "except"
                                       ELSE IF outcome.success THEN "validate"
                                       ELSE "rollback"
    /\ UNCHANGED <<auto_commit, task_graph, task_index, execution_result>>
    /\ UNCHANGED <<fs_vars, applier_vars, parser_vars, run_vars, race_vars,
                   extractor_vars>>

\* the transition to ROLLBACK, _rollback (git reset --hard and git clean)
\* and the exception execute raises after it
Rollback ==
    /\ execute_pc = "rollback"
    /\ \E written \in BOOLEAN, reset \in BOOLEAN :
          /\ current_state' = ROLLBACK
          /\ saved_state' = save_state(ROLLBACK, written)
          /\ IF written /\ reset
             THEN /\ journal' = journal \o <<ROLLBACK, GitRollback>>
                  /\ worktree' = {}
             ELSE /\ journal' = Append(journal, ROLLBACK)
                  /\ worktree' = worktree
    /\ execute_pc' = "except"
    /\ UNCHANGED <<current_task, retry_count, auto_commit, task_graph, task_index,
                   execution_result>>
    /\ UNCHANGED <<fs_vars, applier_vars, parser_vars, run_vars, race_vars,
                   extractor_vars>>

\* the rest of the turn: the transition to VALIDATING, _validate and what
\* execute does with its result; after the last task, the end of execute
Validate ==
    /\ execute_pc = "validate"
    /\ \E written \in BOOLEAN, validation \in validate("tests"),
          c \in [commit_saved : BOOLEAN, committed : BOOLEAN, done_saved : BOOLEAN] :
          LET last == task_index = Len(task_graph[1])
              end == commit_and_finish(auto_commit, c)
          IN  IF ~written \/ validation \in {"TypeError", "CalledProcessError"}
              THEN /\ current_state' = VALIDATING
                   /\ saved_state' = save_state(VALIDATING, written)
                   /\ journal' = Append(journal, VALIDATING)
                   /\ execute_pc' = "except"
                   /\ UNCHANGED <<task_index, execution_result>>
              ELSE IF validation = "not_passed"
              THEN /\ current_state' = VALIDATING
                   /\ saved_state' = <<VALIDATING>>
                   /\ journal' = Append(journal, VALIDATING)
                   /\ execute_pc' = "rollback"
                   /\ UNCHANGED <<task_index, execution_result>>
              ELSE IF ~last
              THEN /\ current_state' = VALIDATING
                   /\ saved_state' = <<VALIDATING>>
                   /\ journal' = Append(journal, VALIDATING)
                   /\ execute_pc' = "implement"
                   /\ task_index' = task_index + 1
                   /\ UNCHANGED execution_result
              ELSE /\ current_state' = end.state
                   /\ saved_state' = IF end.saved = saved_state THEN <<VALIDATING>>
                                     ELSE end.saved
                   /\ journal' = journal \o <<VALIDATING>> \o end.entered
                   /\ execute_pc' = end.pc
                   /\ execution_result' = end.result
                   /\ UNCHANGED task_index
    /\ UNCHANGED <<current_task, retry_count, auto_commit, task_graph, worktree>>
    /\ UNCHANGED <<fs_vars, applier_vars, parser_vars, run_vars, race_vars,
                   extractor_vars>>

\* the except clause: the transition to FAILED and the return of the failure;
\* when the state file cannot be written the exception leaves execute
HandleException ==
    /\ execute_pc = "except"
    /\ \E written \in BOOLEAN :
          /\ current_state' = FAILED
          /\ saved_state' = save_state(FAILED, written)
          /\ journal' = Append(journal, FAILED)
          /\ IF written
             THEN /\ execute_pc' = "returned"
                  /\ execution_result' = <<ExecutionResult(FALSE, <<>>, <<"error">>)>>
             ELSE /\ execute_pc' = "raised"
                  /\ execution_result' = execution_result
    /\ UNCHANGED <<current_task, retry_count, auto_commit, task_graph, task_index,
                   worktree>>
    /\ UNCHANGED <<fs_vars, applier_vars, parser_vars, run_vars, race_vars,
                   extractor_vars>>

\* execute is not called: the StateMachine as __init__ leaves it
ExecuteIdle ==
    /\ current_state = IDLE
    /\ current_task = <<>>
    /\ retry_count = 0
    /\ auto_commit = FALSE
    /\ task_graph = <<>>
    /\ task_index = 0
    /\ execute_pc = "idle"
    /\ execution_result = <<>>
    /\ saved_state = <<>>
    /\ worktree = {}
    /\ journal = <<>>

----------------------------------------------------------------------------
(* The inputs: filesystems and patches *)

MaxHunks == 2
MaxLines == 4

\* the sequences over S of length at most n
BSeq(S, n) == UNION {[1..k -> S] : k \in 0..n}

\* lines of a file: two entity headers, a body line in two indentations, and a
\* replacement line
ClassA == <<"c", " ", "A">>
ClassB == <<"c", " ", "B">>
Ret == <<" ", "r">>
RetDeep == <<" ", " ", "r">>
New == <<" ", "n">>

HeaderB == <<"@", "@", " ", "c", " ", "B", " ", "@", "@">>
HeaderBad == <<"@", "@", " ", "B", " ", "@", "@">>

F == <<"f">>
G == <<"d", "g">>
Paths == {F, G}

\* filesystems in which every file's directory exists
FileSystems(texts) ==
    {fs \in [files : UNION {[D -> texts] : D \in SUBSET Paths},
             dirs : SUBSET {dirname(G)}] :
        \A p \in DOMAIN fs.files : dirname(p) = <<>> \/ dirname(p) \in fs.dirs}

WellFormed(body) == [begin |-> TRUE, end |-> TRUE, body |-> body]

Malformed(body) ==
    {[begin |-> b, end |-> e, body |-> body] :
        <<b, e>> \in {<<FALSE, TRUE>>, <<TRUE, FALSE>>, <<FALSE, FALSE>>}}

\* documents of up to MaxHunks hunks of every action over two paths
AnyHunks ==
    {V4AHunk("add", p, NoPath, NoHeader, <<>>, a) :
        p \in Paths, a \in {<<New>>, <<New, Ret>>}}
    \cup {V4AHunk("delete", p, NoPath, NoHeader, <<>>, <<>>) : p \in Paths}
    \cup {V4AHunk("move", F, G, NoHeader, <<>>, <<>>),
          V4AHunk("move", G, F, NoHeader, <<>>, <<>>)}
    \cup {V4AHunk("update", p, NoPath, NoHeader, r, <<New>>) :
        p \in Paths, r \in {<<>>, <<Ret>>}}

InitAny ==
    /\ \E fs \in FileSystems({JoinLines(<<Ret>>), JoinLines(<<RetDeep, <<>>>>)}) :
          files = fs.files /\ dirs = fs.dirs
    /\ \E body \in BSeq(AnyHunks, MaxHunks) :
          patch_text \in {WellFormed(body)} \cup
                         (IF Len(body) <= 1 THEN Malformed(body) ELSE {})

\* one Update hunk on one file of up to MaxLines lines, with or without a
\* final newline
UpdateHunks ==
    {V4AHunk("update", G, NoPath, h, r, a) :
        h \in {NoHeader, HeaderB},
        r \in {<<>>, <<Ret>>, <<ClassB, Ret>>},
        a \in {<<>>, <<New>>}}
    \cup {V4AHunk("update", G, NoPath, HeaderBad, <<>>, <<New>>)}

InitUpdate ==
    /\ \E ls \in BSeq({ClassA, ClassB, Ret, RetDeep}, MaxLines), nl \in {<<>>, <<NL>>} :
          files = [p \in {G} |-> JoinLines(ls) \o nl]
    /\ dirs = {dirname(G)}
    /\ \E h \in UpdateHunks : patch_text = WellFormed(<<h>>)

\* words longer than three characters, and lines made of them
LongR == <<"r", "r", "r", "r">>
LongN == <<"n", "n", "n", "n">>
LongX == <<"x", "x", "x", "x">>
LineR == <<SP>> \o LongR
LineXR == LongX \o <<SP>> \o LongR
LineRX == LongR \o <<SP>> \o LongX
LineRXN == LongR \o <<SP>> \o LongX \o <<SP>> \o LongN

\* Update hunks whose removed lines hold zero to three long words
SuggestHunks ==
    {V4AHunk("update", G, NoPath, NoHeader, <<r>>, <<New>>) :
        r \in {Ret, LineR, LongX, LineRX, LineRXN}}

\* one such hunk on a file whose lines share some, all or none of those words
InitSuggest ==
    /\ \E ls \in BSeq({Ret, LineR, LineXR}, MaxLines) :
          files = [p \in {G} |-> JoinLines(ls)]
    /\ dirs = {dirname(G)}
    /\ \E h \in SuggestHunks : patch_text = WellFormed(<<h>>)

\* no apply_patch call has been made
ApplierIdle ==
    /\ dry_run = FALSE
    /\ pc = "idle"
    /\ hunks = <<>>
    /\ index = 0
    /\ results = NewResults
    /\ entry = FS
    /\ pre = FS
    /\ prev = <<>>

\* the parser is not used on its own
ParserIdle ==
    /\ document = <<>>
    /\ parse_result = <<>>
    /\ validate_result = <<>>

Init ==
    /\ InitAny \/ InitUpdate \/ InitSuggest
    /\ ApplierIdle
    /\ ParserIdle
    /\ RunIdle
    /\ RaceIdle
    /\ ExtractorIdle
    /\ ExecuteIdle

Spec == Init /\ [][Next]_vars

----------------------------------------------------------------------------
(* The parser on its own: parse and validate_patch on one text *)

Parse ==
    /\ parse_result = <<>>
    /\ parse_result' = <<V4APatchParser_parse(document)>>
    /\ UNCHANGED <<document, validate_result, fs_vars, applier_vars, run_vars, race_vars, extractor_vars, execute_vars>>

ValidatePatch ==
    /\ validate_result = <<>>
    /\ validate_result' = <<validate_patch(document)>>
    /\ UNCHANGED <<document, parse_result, fs_vars, applier_vars, run_vars, race_vars, extractor_vars, execute_vars>>

NextParse ==
    \/ Parse
    \/ ValidatePatch

MaxBodyLines == 3

\* the lines between the markers: hunk headers, a Move header without its
\* arrow, an added, a removed and a context line, and a context header
AddG ==
    <<"*", "*", "*", " ", "A", "d", "d", " ", "F", "i", "l", "e", ":", " ",
      "d", "/", "g">>

AddF ==
    <<"*", "*", "*", " ", "A", "d", "d", " ", "F", "i", "l", "e", ":", " ",
      "f">>

CreateF ==
    <<"*", "*", "*", " ", "C", "r", "e", "a", "t", "e", " ", "F", "i", "l",
      "e", ":", " ", "f">>

DeleteG ==
    <<"*", "*", "*", " ", "D", "e", "l", "e", "t", "e", " ", "F", "i", "l",
      "e", ":", " ", "d", "/", "g">>

UpdateG ==
    <<"*", "*", "*", " ", "U", "p", "d", "a", "t", "e", " ", "F", "i", "l",
      "e", ":", " ", "d", "/", "g">>

MoveFG ==
    <<"*", "*", "*", " ", "M", "o", "v", "e", " ", "F", "i", "l", "e", ":",
      " ", "f", " ", "-", ">", " ", "d", "/", "g">>

MoveBad ==
    <<"*", "*", "*", " ", "M", "o", "v", "e", " ", "F", "i", "l", "e", ":",
      " ", "f">>

PlusNew == <<"+">> \o New
MinusRet == <<"-">> \o Ret
ContextA == <<SP>> \o ClassA

BodyLines ==
    {AddG, DeleteG, UpdateG, MoveFG, MoveBad, PlusNew, MinusRet, ContextA, HeaderB}

\* a text of the given lines with or without each marker line
Marked(begin, body, end) ==
    JoinLines((IF begin THEN <<BeginPatch>> ELSE <<>>) \o body
                  \o (IF end THEN <<EndPatch>> ELSE <<>>))

\* two complete blocks one after the other, each declaring one file with one
\* added line, with the newline a triple-quoted text ends with
TwoBlocks(header1, header2) ==
    JoinLines(<<BeginPatch, header1, PlusNew, EndPatch,
                BeginPatch, header2, PlusNew, EndPatch, <<>>>>)

Documents ==
    {Marked(b, body, e) : b \in BOOLEAN, e \in BOOLEAN,
                          body \in BSeq(BodyLines, MaxBodyLines)}
    \cup {pad[1] \o Marked(b, body, e) \o pad[2] :
            b \in BOOLEAN, e \in BOOLEAN, body \in BSeq({DeleteG}, 1),
            pad \in {<<<<NL>>, <<>>>>, <<<<>>, <<NL>>>>, <<<<SP>>, <<SP, NL>>>>}}
    \cup {TwoBlocks(h1, h2) : h1, h2 \in {AddG, AddF, CreateF}}

InitParse ==
    /\ document \in Documents
    /\ parse_result = <<>>
    /\ validate_result = <<>>
    /\ files = <<>>
    /\ dirs = {}
    /\ patch_text = WellFormed(<<>>)
    /\ ApplierIdle
    /\ RunIdle
    /\ RaceIdle
    /\ ExtractorIdle
    /\ ExecuteIdle

SpecParse == InitParse /\ [][NextParse]_vars

----------------------------------------------------------------------------
(* run_implementer with an agent that answers anything *)

MaxRetries == 2

\* what the agent may answer: a patch that adds d/g, one that adds the bare name
\* f, two that update d/g, a patch inside prose, prose alone, and no text
PatchAddG == Marked(TRUE, <<AddG, PlusNew>>, TRUE)
PatchAddF == Marked(TRUE, <<AddF, PlusNew>>, TRUE)
PatchUpdateG == Marked(TRUE, <<UpdateG, MinusRet, PlusNew>>, TRUE)
PatchUpdateRX == Marked(TRUE, <<UpdateG, <<"-">> \o LineRX, PlusNew>>, TRUE)
Prose == <<"x">>
Wrapped(patch) == Prose \o <<NL>> \o patch \o <<NL>> \o Prose

AgentOutputs ==
    {PatchAddG, PatchAddF, PatchUpdateG, PatchUpdateRX, Wrapped(PatchAddG),
     Prose, <<>>}

Tasks ==
    {[description |-> d, acceptance_criteria |-> <<"criterion">>] :
        d \in {"add a function", "fix a function"}}

\* the project before the run: empty, or d/g holding one line
InitRunFiles ==
    \/ files = <<>> /\ dirs = {}
    \/ /\ \E line \in {Ret, LineR} : files = [p \in {G} |-> JoinLines(<<line>>)]
       /\ dirs = {dirname(G)}

NextRun ==
    \/ \E raw_output \in AgentOutputs : CallAgent(raw_output)
    \/ CallAgentRaises
    \/ DryRun
    \/ RealApply
    \/ Retry
    \/ AllRetriesFailed

\* run_implementer has prepared its input and is about to enter the loop
InitRun ==
    /\ InitRunFiles
    /\ max_retries \in 0..MaxRetries
    /\ task \in Tasks
    /\ stage = "loop"
    /\ attempt = 0
    /\ implementer_input = prepare_implementer_input(task, "file context")
    /\ prompt = build_prompt_from_input(implementer_input)
    /\ patch_output = <<>>
    /\ dry_run_result = <<>>
    /\ run_result = [exception |-> ""]
    /\ log = <<>>
    /\ fs_before_run = RunFS
    /\ patch_text = WellFormed(<<>>)
    /\ ApplierIdle
    /\ ParserIdle
    /\ RaceIdle
    /\ ExtractorIdle
    /\ ExecuteIdle

SpecRun == InitRun /\ [][NextRun]_vars

\* the steps of run_implementer follow one another without waiting on anything
\* but the agent call, which returns or raises within its timeout
SpecRunFair == SpecRun /\ WF_vars(NextRun)

----------------------------------------------------------------------------
(* two real Update calls on the file d/g, in every interleaving of their steps *)

\* the first call replaces or deletes the line of class A, the second replaces
\* the body line by one or two lines
FirstHunks ==
    {V4AHunk("update", G, NoPath, NoHeader, <<ClassA>>, a) :
        a \in {<<ClassB>>, <<>>}}

SecondHunks ==
    {V4AHunk("update", G, NoPath, NoHeader, <<Ret>>, a) :
        a \in {<<New>>, <<New, New>>}}

InitRace ==
    /\ \E ls \in BSeq({ClassA, Ret, RetDeep}, MaxLines) :
          files = [p \in {G} |-> JoinLines(ls)]
    /\ dirs = {dirname(G)}
    /\ call_pc = [c \in Callers |-> "start"]
    /\ \E h1 \in FirstHunks, h2 \in SecondHunks :
          call_hunk = [c \in Callers |-> IF c = 1 THEN h1 ELSE h2]
    /\ call_lines = [c \in Callers |-> <<>>]
    /\ call_result = [c \in Callers |-> <<>>]
    /\ schedule = <<>>
    /\ race_entry = files[G]
    /\ patch_text = WellFormed(<<>>)
    /\ ApplierIdle
    /\ ParserIdle
    /\ RunIdle
    /\ ExtractorIdle
    /\ ExecuteIdle

NextRace == \E c \in Callers : ReadFile(c) \/ OpenForWrite(c) \/ WriteFile(c)

SpecRace == InitRace /\ [][NextRace]_vars

----------------------------------------------------------------------------
(* extract_for_task on files of a few lines with at most one symbol *)

MaxFileLines == 8

PyPath == <<"a", ".", "p", "y">>
HeaderPath == <<"a", ".", "h">>
TextPath == <<"a", ".", "m", "d">>

\* the lines of the files: the first line of a function and of a class named
\* Foo, a line of its body, and a line outside it
DefFoo == <<"d", "e", "f", " ", "F", "o", "o", "(">>
ClassFoo == <<"c", "l", "a", "s", "s", " ", "F", "o", "o", ":">>
BodyLine == <<" ", "f", "o", "o", " ">> \o <<EAcute>>
PadLine == <<"x">>

\* the tasks: one that names the symbol, one that names a word of a docstring
\* only, and one without a keyword
TaskFoo == <<"U", "p", "d", "a", "t", "e", " ", "f", "o", "o", ".">>
TaskZed == <<"A", "d", "d", " ", "t", "h", "e", " ", "Z", "e", "d">>
TaskNone == <<"a", "d", "d", " ", "t", "o", " ", "i", "t">>

DocZed == <<"z", "e", "d">>

\* a file of n lines whose symbol, if it has one, spans the lines first..last
FileLines(n, type, first, last) ==
    [i \in 1..n |->
        IF i = first THEN (IF type = "class" THEN ClassFoo ELSE DefFoo)
        ELSE IF first < i /\ i <= last THEN BodyLine
        ELSE PadLine]

\* what the extractor is configured with and finds installed, per path
Settings ==
    {[strategy |-> "heuristic", path |-> PyPath, installed |-> {}, syntax_ok |-> TRUE]}
    \cup {[strategy |-> "ast", path |-> PyPath, installed |-> {}, syntax_ok |-> ok] :
            ok \in BOOLEAN}
    \cup {[strategy |-> "tree_sitter", path |-> p, installed |-> ins,
           syntax_ok |-> TRUE] :
            p \in {PyPath, HeaderPath},
            ins \in {{}, {"tree_sitter"},
                     {"tree_sitter", "tree_sitter_python", "tree_sitter_cpp"}}}
    \cup {[strategy |-> "tree_sitter", path |-> TextPath,
           installed |-> {"tree_sitter", "tree_sitter_python", "tree_sitter_cpp"},
           syntax_ok |-> TRUE]}

Thresholds == {0, 12}

InitExtract ==
    /\ \E setting \in Settings, threshold \in Thresholds :
          /\ extractor = [strategy |-> setting.strategy,
                          small_file_threshold |-> threshold]
          /\ target_path = setting.path
          /\ installed = setting.installed
          /\ \E n \in 0..MaxFileLines, nl \in {<<>>, <<NL>>} :
                \/ /\ files = [p \in {target_path} |->
                                  JoinLines(FileLines(n, "none", 0, 0)) \o nl]
                   /\ parsed = [syntax_ok |-> setting.syntax_ok, symbols |-> <<>>]
                \/ \E first \in 1..n, last \in 1..n,
                      sym \in {<<"function", None>>, <<"class", None>>,
                               <<"class", DocZed>>} :
                      /\ first <= last
                      /\ files = [p \in {target_path} |->
                                     JoinLines(FileLines(n, sym[1], first, last)) \o nl]
                      /\ parsed = [syntax_ok |-> setting.syntax_ok,
                                   symbols |-> <<SymbolInfo(sym[1], <<"F", "o", "o">>,
                                                            first, last, sym[2])>>]
                \/ /\ n = 0 /\ nl = <<>>
                   /\ files = <<>>
                   /\ parsed = [syntax_ok |-> setting.syntax_ok, symbols |-> <<>>]
    /\ task_description \in {TaskFoo, TaskZed, TaskNone}
    /\ file_context = <<>>
    /\ ExecuteIdle
    /\ dirs = {}
    /\ patch_text = WellFormed(<<>>)
    /\ ApplierIdle
    /\ ParserIdle
    /\ RunIdle
    /\ RaceIdle

NextExtract == ExtractForTask

SpecExtract == InitExtract /\ [][NextExtract]_vars

-----------------------------------------------------------------------------
(* The inputs of execute: the auto_commit setting *)

\* execute is entered on a fresh StateMachine, with or without auto_commit
InitExecute ==
    /\ current_state = IDLE
    /\ current_task = <<>>
    /\ retry_count = 0
    /\ auto_commit \in BOOLEAN
    /\ task_graph = <<>>
    /\ task_index = 0
    /\ execute_pc = "start"
    /\ execution_result = <<>>
    /\ saved_state = <<>>
    /\ worktree = {}
    /\ journal = <<>>
    /\ files = <<>>
    /\ dirs = {}
    /\ patch_text = WellFormed(<<>>)
    /\ ApplierIdle
    /\ ParserIdle
    /\ RunIdle
    /\ RaceIdle
    /\ ExtractorIdle

NextExecute ==
    \/ ScanCodebase
    \/ Plan
    \/ NoTasks
    \/ AuthorTests
    \/ Implement
    \/ Validate
    \/ Rollback
    \/ HandleException

SpecExecute == InitExecute /\ [][NextExecute]_vars

\* execute is sequential code whose calls to the agents and to git carry
\* timeouts: a step that can be taken is taken
SpecExecuteFair == SpecExecute /\ WF_vars(NextExecute)

----------------------------------------------------------------------------
(* What the claims speak about *)

operations == results.operations

\* the for loop has just run the iteration of hunk number index - 1
Iterated == pc # "idle" /\ index > 1

LastHunk == hunks[index - 1]

LastOp == operations[Len(operations)]

IteratedOn(action) == Iterated /\ LastHunk.action = action

\* the lines of the hunk's file before the iteration
PreLines == SplitLines(pre.files[LastHunk.file_path])

\* the i-th smallest element of a set of numbers
Nth(S, i) == CHOOSE x \in S : Cardinality({y \in S : y < x}) = i - 1

\* a line with its whitespace runs collapsed to one space and its ends trimmed:
\* the characters kept are the non-blank ones and the first blank after a
\* non-blank one when another non-blank one follows
Collapsed(line) ==
    LET kept == {j \in 1..Len(line) :
                    \/ ~IsSpace(line[j])
                    \/ /\ j > 1
                       /\ ~IsSpace(line[j - 1])
                       /\ \E k \in (j + 1)..Len(line) : ~IsSpace(line[k])}
    IN  [i \in 1..Cardinality(kept) |->
            IF IsSpace(line[Nth(kept, i)]) THEN SP ELSE line[Nth(kept, i)]]

\* the 0-based starts of the windows of lines equal to search
ExactAt(lines, search) ==
    {i \in 0..(Len(lines) - Len(search)) :
        \A k \in 1..Len(search) : lines[i + k] = search[k]}

\* the 0-based starts of the windows of lines equal to search line by line after
\* whitespace normalization
LooseAt(lines, search) ==
    {i \in 0..(Len(lines) - Len(search)) :
        \A k \in 1..Len(search) : Collapsed(lines[i + k]) = Collapsed(search[k])}

\* an Update hunk with removed lines has just run on a file that existed
UpdatedExisting ==
    /\ IteratedOn("update")
    /\ LastHunk.removed_lines # <<>>
    /\ exists(pre, LastHunk.file_path)

----------------------------------------------------------------------------
\* C1: during and after apply_patch(patch, dry_run=True) the files, their texts
\* and the directories are those the call was entered with, whatever the hunks
\* are and whether or not they succeed.
C1_DryRunLeavesFilesystem ==
    (pc # "idle" /\ dry_run) => (files = entry.files /\ dirs = entry.dirs)

\* a dry run returned after a hunk that succeeded and a hunk that failed
C1_Witness ==
    /\ pc = "returned" /\ dry_run
    /\ Len(operations) = 2
    /\ operations[1].success /\ operations[1].action \in {"delete", "move"}
    /\ ~operations[2].success

\* C2: a dry run and the real apply of the same patch from the same filesystem
\* return, hunk by hunk, the same success flag and match_strategy, and the same
\* overall success.
C2_DryRunAgreesWithRealApply ==
    (pc = "returned" /\ ~dry_run /\ prev # <<>> /\ prev[1].dry_run
        /\ prev[1].entry = entry)
    => /\ Len(prev[1].results.operations) = Len(operations)
       /\ \A i \in 1..Len(operations) :
             /\ i <= Len(prev[1].results.operations)
             /\ prev[1].results.operations[i].success = operations[i].success
             /\ prev[1].results.operations[i].match_strategy
                    = operations[i].match_strategy
       /\ prev[1].results.success = results.success

\* C3: when the patch parses, the loop runs every hunk in document order: while it
\* runs there is one ApplyResult per hunk done, and at the return there is one
\* per hunk of the document, in order, and success is their conjunction.
C3_EveryHunkAttempted ==
    /\ pc = "loop" => (index <= Len(patch_text.body) /\ Len(operations) = index - 1)
    /\ (pc = "returned" /\ patch_text.begin /\ patch_text.end)
       => /\ Len(operations) = Len(patch_text.body)
          /\ \A i \in 1..Len(patch_text.body) :
                /\ i <= Len(operations)
                /\ operations[i].action = patch_text.body[i].action
                /\ operations[i].file_path = patch_text.body[i].file_path
          /\ results.success = (\A i \in 1..Len(operations) : operations[i].success)

\* a call returned whose first hunk raised and whose second hunk succeeded
C3_Witness ==
    /\ pc = "returned"
    /\ Len(operations) = 2
    /\ operations[1].error = ENOENT /\ results.errors # <<>>
    /\ operations[2].success

\* C4: an Update hunk with removed lines changes the filesystem only when some
\* window of the file equals removed_lines exactly or after whitespace
\* normalization; when there is none it fails with 'Could not locate code to
\* replace' and leaves the filesystem as it was, in a real and in a dry run.
C4_NoWindowNoChange ==
    UpdatedExisting
    => /\ (FS # pre) => LooseAt(PreLines, LastHunk.removed_lines) # {}
       /\ LooseAt(PreLines, LastHunk.removed_lines) = {}
          => /\ ~LastOp.success
             /\ LastOp.error = "Could not locate code to replace"
             /\ FS = pre

\* a real Update failed to locate its lines although its header's anchor line
\* is in the file
C4_Witness ==
    /\ UpdatedExisting /\ ~dry_run
    /\ LastOp.error = "Could not locate code to replace"
    /\ HeaderEntity(LastHunk.context_header) # <<>>
    /\ \E i \in 1..Len(PreLines) :
          EntityLineMatches(PreLines[i], HeaderEntity(LastHunk.context_header)[1],
                            HeaderEntity(LastHunk.context_header)[2])

\* C5: after a real Update hunk that matched, line_range (start, end) lies in
\* the pre-edit file, end - start = len(removed_lines), the file's text is the
\* pre-edit lines before start, then added_lines, then the pre-edit lines from
\* end on, joined by newlines (and splits back to those lines unless there are
\* none), and nothing else on the filesystem changed.
C5_UpdateSplice ==
    (IteratedOn("update") /\ ~dry_run /\ LastOp.success)
    => LET start == LastOp.line_range[1]
           end == LastOp.line_range[2]
           expected == SubSeq(PreLines, 1, start) \o LastHunk.added_lines
                           \o SubSeq(PreLines, end + 1, Len(PreLines))
       IN  /\ 0 <= start /\ start <= end /\ end <= Len(PreLines)
           /\ end - start = Len(LastHunk.removed_lines)
           /\ files[LastHunk.file_path] = JoinLines(expected)
           /\ expected # <<>> => SplitLines(files[LastHunk.file_path]) = expected
           /\ DOMAIN files = DOMAIN pre.files
           /\ \A q \in DOMAIN files \ {LastHunk.file_path} : files[q] = pre.files[q]
           /\ dirs = pre.dirs

\* a real Update replaced lines in the middle of a file
C5_Witness ==
    /\ IteratedOn("update") /\ ~dry_run /\ LastOp.success
    /\ LastHunk.removed_lines # <<>> /\ LastHunk.added_lines # <<>>
    /\ LastOp.line_range[1] > 0
    /\ LastOp.line_range[2] < Len(PreLines)

C7_HeaderPicksNamedEntity ==
    LET ent == HeaderEntity(LastHunk.context_header)
        anchors == {i \in 1..Len(PreLines) :
                       EntityLineMatches(PreLines[i], ent[1], ent[2])}
        others == {i \in 1..Len(PreLines) :
                      /\ EntityLineMatches(PreLines[i], ent[1], <<>>)
                      /\ ~EntityLineMatches(PreLines[i], ent[1], ent[2])}
        at == ExactAt(PreLines, LastHunk.removed_lines)
        n == Len(LastHunk.removed_lines)
    IN  (/\ UpdatedExisting /\ ~dry_run
         /\ ent # <<>> /\ anchors # {}
         /\ \E b \in others : \E i \in at : b <= i /\ i + n < Min(anchors)
         /\ \E i \in at : i >= Min(anchors))
        => /\ LastOp.success
           /\ LastOp.line_range[1] >= Min(anchors)
           /\ SubSeq(SplitLines(files[LastHunk.file_path]), 1, Min(anchors))
                  = SubSeq(PreLines, 1, Min(anchors))

\* C8: when no window equals removed_lines exactly but some window equals it
\* line by line after normalization, the hunk succeeds with match_strategy
\* 'fuzzy' at the lowest such window; and a fuzzy match is always a window whose
\* every line equals the removed line after normalization.
C8_FuzzyMatch ==
    UpdatedExisting
    => /\ (/\ ExactAt(PreLines, LastHunk.removed_lines) = {}
           /\ LooseAt(PreLines, LastHunk.removed_lines) # {})
          => /\ LastOp.success
             /\ LastOp.match_strategy = "fuzzy"
             /\ LastOp.line_range
                    = << Min(LooseAt(PreLines, LastHunk.removed_lines)),
                         Min(LooseAt(PreLines, LastHunk.removed_lines))
                             + Len(LastHunk.removed_lines) >>
       /\ LastOp.match_strategy = "fuzzy"
          => LastOp.line_range[1] \in LooseAt(PreLines, LastHunk.removed_lines)

\* a fuzzy match was found in a file with several normalized-equal windows
C8_Witness ==
    /\ UpdatedExisting
    /\ LastOp.match_strategy = "fuzzy"
    /\ Cardinality(LooseAt(PreLines, LastHunk.removed_lines)) > 1

\* C9: a real Add of a path that did not exist succeeds with match_strategy
\* 'new_file', and the file's text is then the added lines joined by newlines.
C9_RoundTripAdd ==
    (IteratedOn("add") /\ ~dry_run /\ ~exists(pre, LastHunk.file_path))
    => /\ LastOp.success
       /\ LastOp.match_strategy = "new_file"
       /\ exists(FS, LastHunk.file_path)
       /\ files[LastHunk.file_path] = JoinLines(LastHunk.added_lines)

\* the hunk's action does not fit the existence of its paths
Mismatch ==
    IF LastHunk.action = "add" THEN exists(pre, LastHunk.file_path)
    ELSE IF LastHunk.action = "move"
    THEN ~exists(pre, LastHunk.file_path) \/ exists(pre, LastHunk.new_path)
    ELSE ~exists(pre, LastHunk.file_path)

\* C10: a hunk whose action does not fit the existence of its paths fails and
\* changes nothing (an Update with 'File does not exist' and the Add File
\* suggestion, an Add with 'File already exists'), and the loop goes on to the
\* remaining hunks.
C10_PreconditionErrors ==
    (Iterated /\ Mismatch)
    => /\ ~LastOp.success
       /\ FS = pre
       /\ LastHunk.action = "update"
          => /\ LastOp.error = "File does not exist"
             /\ LastOp.suggestions = <<[suggestion |-> "Use Add File instead"]>>
       /\ LastHunk.action = "add" => LastOp.error = "File already exists"
       /\ LastHunk.action = "delete" => LastOp.error = "File does not exist"
       /\ index <= Len(hunks) => pc = "loop"

\* an Add on an existing path failed and the hunk after it succeeded
C10_Witness ==
    /\ pc = "returned"
    /\ Len(operations) = 2
    /\ patch_text.body[1].action = "add"
    /\ operations[1].error = "File already exists"
    /\ operations[2].success

\* the hunk just run targets the path that the hunk before it, an Add reported
\* as successful, created: the path did not exist when the call was entered
AfterAddOfSamePath ==
    /\ Iterated /\ index > 2
    /\ hunks[index - 2].action = "add"
    /\ hunks[index - 2].file_path = LastHunk.file_path
    /\ operations[index - 2].success
    /\ ~exists(entry, LastHunk.file_path)

\* C11: hunks run against the filesystem the earlier hunks of the same document
\* left, in a dry run as in a real apply: an Update, Delete or Move of a path
\* that the Add hunk before it created finds the file present.
C11_LaterHunkSeesEarlierAdd ==
    (AfterAddOfSamePath /\ LastHunk.action \in {"update", "delete", "move"})
    => LastOp.error \notin {"File does not exist", "Source file does not exist"}

\* C12: when the patch text does not parse, apply_patch returns (it does not
\* raise) success = False with exactly one entry in errors and no operations; no
\* hunk is attempted and the filesystem is as the call found it.
C12_ParseFailure ==
    (pc # "idle" /\ (~patch_text.begin \/ ~patch_text.end))
    => /\ pc = "returned"
       /\ ~results.success
       /\ Len(results.errors) = 1
       /\ results.errors[1][1] = "Parse error"
       /\ operations = <<>>
       /\ index = 1
       /\ FS = entry

\* a real apply of a text that holds a hunk but no End marker has returned
C12_Witness ==
    /\ pc = "returned" /\ ~dry_run
    /\ patch_text.begin /\ ~patch_text.end
    /\ patch_text.body # <<>>
    /\ patch_text.body[1].action = "delete"
    /\ exists(FS, patch_text.body[1].file_path)

\* the latest call that returned before the running one
PrevCall == prev[Len(prev)]

\* no hunk of the document creates the path
NeverCreated(path) ==
    \A k \in 1..Len(hunks) :
        /\ ~(hunks[k].action = "add" /\ hunks[k].file_path = path)
        /\ ~(hunks[k].action = "move" /\ hunks[k].new_path = path)

\* C15: a Delete of an existing path succeeds with 'file_delete'; after a real
\* apply the path is gone and every other path is as before; a second Delete of
\* the same path, later in the same document or in a later call, fails with
\* 'File does not exist'.
C15_DeleteThenGone ==
    /\ (IteratedOn("delete") /\ exists(pre, LastHunk.file_path))
       => /\ LastOp.success
          /\ LastOp.match_strategy = "file_delete"
          /\ ~dry_run
             => /\ DOMAIN files = DOMAIN pre.files \ {LastHunk.file_path}
                /\ \A q \in DOMAIN files : files[q] = pre.files[q]
                /\ dirs = pre.dirs
    /\ (IteratedOn("delete") /\ ~dry_run /\ index > 2
            /\ hunks[index - 2].action = "delete"
            /\ hunks[index - 2].file_path = LastHunk.file_path
            /\ operations[index - 2].success)
       => (~LastOp.success /\ LastOp.error = "File does not exist")
    /\ (IteratedOn("delete") /\ ~dry_run /\ prev # <<>> /\ ~PrevCall.dry_run
            /\ NeverCreated(LastHunk.file_path)
            /\ \E k \in 1..Len(hunks) :
                  /\ hunks[k].action = "delete"
                  /\ hunks[k].file_path = LastHunk.file_path
                  /\ PrevCall.results.operations[k].success)
       => (~LastOp.success /\ LastOp.error = "File does not exist")

\* a document of two Deletes of one path was applied twice: the first Delete of
\* the first call succeeded, the three after it failed
C15_Witness ==
    /\ pc = "returned" /\ ~dry_run
    /\ prev # <<>> /\ ~PrevCall.dry_run
    /\ Len(hunks) = 2
    /\ hunks[1].action = "delete" /\ hunks[2] = hunks[1]
    /\ PrevCall.results.operations[1].success
    /\ PrevCall.results.operations[2].error = "File does not exist"
    /\ operations[1].error = "File does not exist"
    /\ operations[2].error = "File does not exist"

\* C16: a Move whose source exists and whose destination does not succeeds with
\* 'file_move', whether or not the destination has a directory component; after
\* a real apply the source is gone, the destination holds the source's text and
\* no other path has changed.
C16_MoveSucceeds ==
    (IteratedOn("move") /\ exists(pre, LastHunk.file_path)
        /\ ~exists(pre, LastHunk.new_path))
    => /\ LastOp.success
       /\ LastOp.match_strategy = "file_move"
       /\ ~dry_run
          => /\ DOMAIN files = (DOMAIN pre.files \ {LastHunk.file_path})
                                   \cup {LastHunk.new_path}
             /\ files[LastHunk.new_path] = pre.files[LastHunk.file_path]
             /\ \A q \in DOMAIN files \ {LastHunk.new_path} :
                   files[q] = pre.files[q]

\* the words of a line that are longer than three characters: the maximal runs
\* of word characters of length four or more
LongWords(line) ==
    {SubSeq(line, a, b) : <<a, b>> \in
        {ab \in (1..Len(line)) \X (1..Len(line)) :
            /\ ab[2] - ab[1] >= 3
            /\ \A j \in ab[1]..ab[2] : IsWord(line[j])
            /\ ab[1] = 1 \/ ~IsWord(line[ab[1] - 1])
            /\ ab[2] = Len(line) \/ ~IsWord(line[ab[2] + 1])}}

\* the long words of the hunk's removed lines
Wanted == UNION {LongWords(LastHunk.removed_lines[k]) :
                    k \in 1..Len(LastHunk.removed_lines)}

\* the wanted words that line number n of the file holds as words
Shared(n) == {w \in Wanted : \E a \in 1..Len(PreLines[n]) :
                 /\ StartsWithAt(PreLines[n], a, w)
                 /\ a = 1 \/ ~IsWord(PreLines[n][a - 1])
                 /\ a + Len(w) > Len(PreLines[n]) \/ ~IsWord(PreLines[n][a + Len(w)])}

\* the file's line numbers that hold at least 40% of the wanted words
Similar == {n \in 1..Len(PreLines) :
               Wanted # {} /\ 10 * Cardinality(Shared(n)) >= 4 * Cardinality(Wanted)}

\* an Update of an existing file failed for want of a place to apply
LocationError ==
    /\ UpdatedExisting
    /\ LastOp.error = "Could not locate code to replace"

BeginsWithMarker(text) ==
    \E a \in 1..Len(text) :
        /\ \A j \in 1..(a - 1) : text[j] \in StripChars
        /\ text[a] \notin StripChars
        /\ StartsWithAt(text, a, BeginPatch)

\* the text, with the whitespace around it trimmed, ends with the End marker
EndsWithMarker(text) ==
    \E b \in 1..Len(text) :
        /\ \A j \in (b + 1)..Len(text) : text[j] \in StripChars
        /\ text[b] \notin StripChars
        /\ b >= Len(EndPatch)
        /\ StartsWithAt(text, b - Len(EndPatch) + 1, EndPatch)

FormatErrors ==
    {"Invalid V4A patch: missing '*** Begin Patch' marker",
     "Invalid V4A patch: missing '*** End Patch' marker"}

\* C13: parse fails with a format error and yields no hunks whenever the text,
\* trimmed of surrounding whitespace, does not begin with '*** Begin Patch' or
\* does not end with '*** End Patch'; validate_patch returns (False, message) for
\* such a text and (True, None) for a text that parses.
C13_MarkersRequired ==
    /\ (parse_result # <<>>
            /\ ~(BeginsWithMarker(document) /\ EndsWithMarker(document)))
       => /\ parse_result[1].raised
          /\ parse_result[1].exc \in FormatErrors
          /\ parse_result[1].hunks = <<>>
    /\ (validate_result # <<>>
            /\ ~(BeginsWithMarker(document) /\ EndsWithMarker(document)))
       => /\ validate_result[1][1] = FALSE
          /\ validate_result[1][2] \in FormatErrors
    /\ (validate_result # <<>> /\ parse_result # <<>> /\ ~parse_result[1].raised)
       => validate_result[1] = <<TRUE, "None">>

\* parse and validate_patch have rejected a text that begins with the Begin
\* marker and holds a hunk header but has no End marker
C13_Witness ==
    /\ BeginsWithMarker(document) /\ ~EndsWithMarker(document)
    /\ \E i \in 1..Len(document) : StartsWithAt(document, i, DeleteFile)
    /\ parse_result # <<>> /\ parse_result[1].raised
    /\ validate_result # <<>> /\ ~validate_result[1][1]

\* C14: a text of two complete blocks one after the other, each declaring one
\* file with '+' lines, parses to the hunks of both blocks in order: two ADD
\* hunks, none after the first '*** End Patch' dropped.
C14_BothBlocksParsed ==
    \A h1, h2 \in {AddG, AddF, CreateF} :
        (parse_result # <<>> /\ document = TwoBlocks(h1, h2))
        => /\ ~parse_result[1].raised
           /\ Len(parse_result[1].hunks) = 2
           /\ \A k \in 1..2 :
                 /\ k <= Len(parse_result[1].hunks)
                 /\ parse_result[1].hunks[k].action = "add"
                 /\ parse_result[1].hunks[k].added_lines = <<New>>

\* how many events of a kind the run has made so far
Calls(event) == Cardinality({i \in 1..Len(log) : log[i].event = event})

\* C18: run_implementer terminates whatever the agent answers and whatever the
\* configured maximum attempt count is: it makes at most max_retries agent
\* calls, at most max_retries dry runs and at most one real apply, and then
\* returns a result dictionary.
C18_RunTerminates ==
    /\ [](/\ Calls("agent") <= max_retries
          /\ Calls("dry_run") <= max_retries
          /\ Calls("apply") <= 1
          /\ stage # "raised")
    /\ <>(stage = "returned")

\* C19: each attempt goes from the agent's answer to the dry run and from there
\* to the real apply or to the next attempt; a real apply comes only directly
\* after a successful dry run of the same patch text in the same attempt, and
\* as long as no dry run has succeeded the project's files are untouched.
C19_ApplyOnlyAfterDryRun ==
    /\ \A i \in 1..Len(log) :
          /\ log[i].event = "apply"
             => /\ i > 1
                /\ log[i - 1].event = "dry_run"
                /\ log[i - 1].result.success
                /\ log[i - 1].patch = log[i].patch
                /\ log[i - 1].attempt = log[i].attempt
          /\ log[i].event = "dry_run"
             => /\ i > 1
                /\ log[i - 1].event = "agent"
                /\ log[i - 1].attempt = log[i].attempt
          /\ (log[i].event = "agent" /\ i > 1)
             => /\ log[i - 1].event = "dry_run"
                /\ ~log[i - 1].result.success
                /\ log[i].attempt = log[i - 1].attempt + 1
    /\ (\A i \in 1..Len(log) : log[i].event = "dry_run" => ~log[i].result.success)
       => RunFS = fs_before_run

\* the run returned after a real apply in its second attempt that changed the
\* project
C19_Witness ==
    /\ stage = "returned"
    /\ Len(log) = 5
    /\ log[5].event = "apply" /\ log[5].attempt = 1
    /\ ~log[2].result.success
    /\ RunFS # fs_before_run

\* a dry run has just failed and another attempt is left
FailedDryRun == stage = "retry" /\ attempt + 1 < max_retries

\* the messages of the error entries a retry prompt shows
PromptMessages(q) ==
    {q.previous[1].errors[j][Len(q.previous[1].errors[j])] :
        j \in 1..Len(q.previous[1].errors)}

\* the prompt q is a retry prompt for the failed dry run d: it holds the task,
\* the patch that failed, the result's errors, and for every failed hunk its
\* error and its suggestions
RetryPromptFor(q, d) ==
    /\ q.task = task
    /\ q.previous # <<>>
    /\ q.previous[1].patch = d.patch
    /\ \A j \in 1..Len(d.result.errors) :
          d.result.errors[j][Len(d.result.errors[j])] \in PromptMessages(q)
    /\ \A k \in 1..Len(d.result.operations) :
          ~d.result.operations[k].success
          => /\ d.result.operations[k].error \in PromptMessages(q)
             /\ \A n \in 1..Len(d.result.operations[k].suggestions) :
                   \E part \in DOMAIN q.previous[1] :
                       /\ part = "suggestions"
                       /\ \E j \in 1..Len(q.previous[1][part]) :
                             q.previous[1][part][j]
                                 = d.result.operations[k].suggestions[n]

\* the latest event is an agent call with a retry prompt for the dry run before
Reprompted ==
    /\ Len(log) >= 2
    /\ log[Len(log)].event = "agent"
    /\ log[Len(log) - 1].event = "dry_run"
    /\ RetryPromptFor(log[Len(log)].prompt, log[Len(log) - 1])

Exhausted ==
    /\ stage = "returned"
    /\ log # <<>>
    /\ log[Len(log)].event = "dry_run"

\* the messages of the error entries the returned last_error holds
LastErrorMessages ==
    {run_result.last_error[j][Len(run_result.last_error[j])] :
        j \in 1..Len(run_result.last_error)}

C29_SuccessMeansApplied ==
    (stage = "returned" /\ run_result.success)
    => \A k \in 1..Len(run_result.operations) :
          /\ run_result.operations[k].success
          /\ run_result.operations[k].action = "add"
             => exists(RunFS, run_result.operations[k].file_path)

\* the context lines among the first n lines of an Update hunk's body that have
\* (seen) or do not have (~seen) an added or a removed line before them, in
\* order, without their leading space
RECURSIVE ContextLinesOf(_, _, _)
ContextLinesOf(body, n, seen) ==
    IF n = 0 THEN <<>>
    ELSE ContextLinesOf(body, n - 1, seen)
             \o (IF /\ Head(body[n]) = SP
                    /\ seen = (\E j \in 1..(n - 1) : Head(body[j]) \in {"+", "-"})
                 THEN <<Tail(body[n])>> ELSE <<>>)

\* the bodies of an Update hunk made of added, removed and context lines
UpdateBodies == BSeq({PlusNew, MinusRet, ContextA}, MaxBodyLines - 1)

\* C24: every context line of an Update hunk's body is recorded, in order, in
\* context_before when no added or removed line precedes it and in
\* context_after when one does, whatever the order of the lines; none is
\* dropped.
C24_ContextLinesKept ==
    \A body \in UpdateBodies :
        (parse_result # <<>> /\ document = Marked(TRUE, <<UpdateG>> \o body, TRUE))
        => /\ ~parse_result[1].raised
           /\ Len(parse_result[1].hunks) = 1
           /\ parse_result[1].hunks[1].context_before
                 = ContextLinesOf(body, Len(body), FALSE)
           /\ parse_result[1].hunks[1].context_after
                 = ContextLinesOf(body, Len(body), TRUE)

\* the 0-based numbers of the lines of the file that the hunk's context header
\* names: '<kind> <name>' after any indentation
HeaderAnchors ==
    LET ent == HeaderEntity(LastHunk.context_header)
    IN  IF ent = <<>> THEN {}
        ELSE {i \in 0..(Len(PreLines) - 1) :
                 EntityLineMatches(PreLines[i + 1], ent[1], ent[2])}

\* an Update hunk has just succeeded through the context-header tier
MatchedByHeader ==
    /\ IteratedOn("update")
    /\ LastOp.success
    /\ LastOp.match_strategy = "context_header"

\* C28: an Update hunk succeeds with match_strategy 'context_header' only when
\* its removed_lines is empty; the match is then the empty range at the first
\* line the header names, and a real apply inserts added_lines immediately
\* before that line and removes nothing.
C28_ContextHeaderOnlyInserts ==
    MatchedByHeader
    => /\ LastHunk.removed_lines = <<>>
       /\ HeaderAnchors # {}
       /\ LastOp.line_range = <<Min(HeaderAnchors), Min(HeaderAnchors)>>
       /\ ~dry_run
          => files[LastHunk.file_path]
                = JoinLines(SubSeq(PreLines, 1, Min(HeaderAnchors))
                                \o LastHunk.added_lines
                                \o SubSeq(PreLines, Min(HeaderAnchors) + 1,
                                          Len(PreLines)))

\* a real Update has inserted a line before the named entity's line, which is
\* not the first line of the file
C28_Witness ==
    /\ MatchedByHeader /\ ~dry_run
    /\ LastHunk.added_lines # <<>>
    /\ Min(HeaderAnchors) > 0
    /\ files[LastHunk.file_path] # pre.files[LastHunk.file_path]
    /\ Len(SplitLines(files[LastHunk.file_path]))
          = Len(PreLines) + Len(LastHunk.added_lines)

\* when the call took the step: its 1-based place in the schedule, 0 for never
Pos(c, step) ==
    IF \E i \in 1..Len(schedule) : schedule[i] = <<c, step>>
    THEN CHOOSE i \in 1..Len(schedule) : schedule[i] = <<c, step>>
    ELSE 0

BothReturned == \A c \in Callers : call_pc[c] = "returned"

BothSucceeded ==
    \A c \in Callers : call_result[c] # <<>> /\ call_result[c][1].success

\* the lines of the file when the two calls were started
OrigLines == SplitLines(race_entry)

\* where a call's removed lines are in the original file: the 0-based start of
\* the first exact window, else of the first window equal after normalization,
\* else -1
Region(c) ==
    LET at == ExactAt(OrigLines, call_hunk[c].removed_lines)
        loose == LooseAt(OrigLines, call_hunk[c].removed_lines)
    IN  IF at # {} THEN Min(at) ELSE IF loose # {} THEN Min(loose) ELSE -1

\* both hunks have their lines in the original file, in windows that do not
\* overlap
DisjointRegions ==
    /\ \A c \in Callers : Region(c) >= 0
    /\ \/ Region(1) + Len(call_hunk[1].removed_lines) <= Region(2)
       \/ Region(2) + Len(call_hunk[2].removed_lines) <= Region(1)

\* lines with the call's edit made at the 0-based line p
Spliced(lines, c, p) ==
    SubSeq(lines, 1, p) \o call_hunk[c].added_lines
        \o SubSeq(lines, p + Len(call_hunk[c].removed_lines) + 1, Len(lines))

\* the original lines with both edits made, the lower one last
BothEdits ==
    LET hi == CHOOSE c \in Callers : \A d \in Callers : Region(d) <= Region(c)
        lo == CHOOSE c \in Callers : c # hi
    IN  Spliced(Spliced(OrigLines, hi, Region(hi)), lo, Region(lo))

\* both calls read the file before either opened it for writing
ReadsBeforeWrites ==
    \A c, d \in Callers : Pos(c, "read") < Pos(d, "open")

\* C27: two real Update calls for disjoint regions of one file leave both edits
\* in the file when the second starts after the first has returned; when both
\* read the file before either writes it, both report success and the file
\* holds the edit of the call that wrote last only: the other edit is lost.
C27_UnlockedReadModifyWrite ==
    \A a, b \in Callers :
        (a # b /\ BothReturned /\ DisjointRegions)
        => /\ (Pos(a, "write") > 0 /\ Pos(a, "write") < Pos(b, "read"))
              => /\ BothSucceeded
                 /\ files[G] = JoinLines(BothEdits)
           /\ (ReadsBeforeWrites /\ Pos(a, "write") < Pos(b, "open"))
              => /\ BothSucceeded
                 /\ files[G] = JoinLines(Spliced(OrigLines, b, Region(b)))
                 /\ files[G] # JoinLines(BothEdits)

\* both calls have reported success after reading the same text, and the edit
\* of the first call, which wrote first, is not in the file
C27_Witness ==
    /\ BothReturned /\ DisjointRegions /\ BothSucceeded
    /\ ReadsBeforeWrites
    /\ Pos(1, "write") < Pos(2, "open")
    /\ files[G] # JoinLines(BothEdits)
    /\ \E i \in 1..Len(OrigLines) :
          OrigLines[i] = ClassA /\ SplitLines(files[G])[i] = ClassA

\* extract_for_task has returned
Extracted == file_context # <<>>

Context == file_context[1]

\* C22: for a path that does not exist, whatever the task and the configured
\* strategy, extract_for_task returns a FileContext with file_exists false,
\* action 'create' and empty all_symbols and relevant_sections; and every
\* FileContext it returns with file_exists false has action 'create' and empty
\* sections and symbols.
C22_MissingFileGivesCreate ==
    Extracted
    => /\ target_path \notin DOMAIN files
          => /\ Context.file_exists = FALSE
             /\ Context.action = "create"
             /\ Context.all_symbols = Some(<<>>)
             /\ Context.relevant_sections = Some(<<>>)
       /\ ~Context.file_exists
          => /\ Context.action = "create"
             /\ Context.all_symbols = Some(<<>>)
             /\ Context.relevant_sections = Some(<<>>)

\* an extractor set to the AST strategy with a threshold above zero has
\* answered for a path that does not exist
C22_Witness ==
    /\ Extracted
    /\ target_path \notin DOMAIN files
    /\ extractor.strategy = "ast" /\ extractor.small_file_threshold > 0
    /\ ~Context.file_exists

\* C23: an existing file smaller than small_file_threshold gets, under every
\* strategy and task, strategy 'full_file_small', full_content equal to the
\* file's text and an empty relevant_sections; a file of the threshold's size or
\* more never gets 'full_file_small'.
C23_SmallFileInFull ==
    (Extracted /\ target_path \in DOMAIN files)
    => /\ getsize(files[target_path]) < extractor.small_file_threshold
          => /\ Context.strategy = "full_file_small"
             /\ Context.full_content = Some(files[target_path])
             /\ Context.relevant_sections = Some(<<>>)
       /\ getsize(files[target_path]) >= extractor.small_file_threshold
          => Context.strategy # "full_file_small"

\* the reason and the line range of each section
Ranges(sections) ==
    [k \in 1..Len(sections) |->
        <<sections[k].reason, sections[k].line_start, sections[k].line_end>>]

\* C25: under the AST or the tree-sitter strategy, when no symbol of the file
\* matches a keyword of the task, the sections are those of the keyword scan:
\* the windows around the lines with a keyword, and when no line has one, two
\* sections tagged file_start and file_end.
C25_FallsBackToKeywordScan ==
    (/\ Extracted
     /\ Context.strategy \in {"ast", "tree_sitter"}
     /\ match_symbols_to_keywords(parsed.symbols,
                                  extract_keywords(task_description)) = <<>>)
    => /\ Ranges(Context.relevant_sections[1])
             = Ranges(extract_with_heuristic(target_path, files[target_path],
                                             task_description).relevant_sections[1])
       /\ (\A i \in 1..Len(readlines(files[target_path])) :
              matched_kws(readlines(files[target_path])[i],
                          extract_keywords(task_description)) = <<>>)
          => /\ Len(Context.relevant_sections[1]) = 2
             /\ Context.relevant_sections[1][1].reason = Some("file_start")
             /\ Context.relevant_sections[1][2].reason = Some("file_end")

\* C26: a section built for a relevant symbol with the 1-based span [s, e] in a
\* file of T lines has line_start = max(1, s - 6) and line_end = min(T, e + 6),
\* and every section of every returned FileContext has
\* 1 <= line_start <= line_end <= total_lines.
C26_SectionRangeClamped ==
    (Extracted /\ Context.relevant_sections # None)
    => \A k \in 1..Len(Context.relevant_sections[1]) :
          LET section == Context.relevant_sections[1][k]
          IN  /\ section.symbol # None
                 => \E j \in 1..Len(parsed.symbols) :
                       /\ parsed.symbols[j].name = section.symbol[1]
                       /\ section.line_start
                             = Max({1, parsed.symbols[j].lineno - 6})
                       /\ section.line_end
                             = Min({Context.total_lines[1],
                                    parsed.symbols[j].end_lineno + 6})
              /\ 1 <= section.line_start
              /\ section.line_start <= section.line_end
              /\ section.line_end <= Context.total_lines[1]

\* execute has ended: it returned an ExecutionResult, or the exception of
\* the except clause's own transition left it
Ended == execute_pc \in {"returned", "raised"}

\* the positions of the journal holding x
At(x) == {i \in 1..Len(journal) : journal[i] = x}

\* a patch of the implementer stage was really applied during the run
AppliedInRun == At(PatchApplied) # {}

\* after the last real apply and before the transition to FAILED the
\* ROLLBACK state was entered and the git rollback performed
RolledBackBeforeFailed ==
    \E f \in At(FAILED), r \in At(ROLLBACK), g \in At(GitRollback) :
        /\ r < g /\ g < f
        /\ \A a \in At(PatchApplied) : a < r

\* C30: StateMachine.execute always ends, in state DONE or FAILED; and when
\* it ends in FAILED after a task's patch was really applied during the run,
\* the ROLLBACK state was entered and the git rollback performed before the
\* transition to FAILED.
C30_EndsDoneOrFailedAfterRollback ==
    /\ <>Ended
    /\ [](Ended => /\ current_state \in {DONE, FAILED}
                   /\ (current_state = FAILED /\ AppliedInRun)
                         => RolledBackBeforeFailed)

====
